---- MODULE Spec2Model ----
(***************************************************************************)
(* A model of the cantor crate: the Finite bijection (src/src/lib.rs and   *)
(* the derive macro in src/macros/src/lib.rs), the unsigned-width registry *)
(* (src/src/uint.rs), the bitmap set (src/src/set.rs), the compressed      *)
(* value (src/src/compress.rs) and the array map (src/src/map.rs,          *)
(* src/src/array.rs).                                                      *)
(*                                                                         *)
(* Representation of Rust values:                                          *)
(*   ()            <<>>                                                    *)
(*   bool          FALSE / TRUE                                            *)
(*   u8, u16       a natural number                                        *)
(*   Option<T>     <<>> for None, <<v>> for Some(v)                        *)
(*   (A, B)        <<a, b>>                                                *)
(*   struct        <<f1, ..., fk>>, the fields in declaration order        *)
(*   enum          <<k, <<f1, ..., fk>>>>, k the 1-based position of the   *)
(*                 variant in the declaration                              *)
(* A type is described by [kind, args]; args are the type's parameters     *)
(* (the field types of a struct, the variants of an enum).                 *)
(***************************************************************************)
EXTENDS Integers, Sequences, FiniteSets, TLC

VARIABLES
    fin_op,      \* "call nth"/"call index_of": about to be made; "nth"/"index_of": made
    fin_ty,      \* the type the call was made on (a type reference)
    fin_index,   \* nth's argument, or index_of's result
    fin_value,   \* nth's result (an Option), or index_of's argument
    uint_op,     \* "call log2"/"call Uint": about to be made; "log2"/"Uint": made
    uint_n,      \* the argument of log2, or the N of Uint<N>
    uint_ret,    \* log2's result, or the width in bits of the type Uint<N> names
    set_ty,      \* the T of the BitmapSet<T> (a type reference)
    set_op,      \* the last BitmapSet operation
    bitmap,      \* the set's backing integer: the positions of its one bits
    set_ret,     \* what the last operation returned (next, next_back, contains, nth)
    overflow_checks, \* whether the build checks arithmetic overflow (debug)
    panicked,    \* whether the program has panicked
    set_arg,     \* the argument of the last BitmapSet operation, <<>> if none
                 \* (for new, the closure and the values it was called with)
    iter_start,  \* the set's backing integer before the calls of next and
                 \* next_back made since the last other operation
    iter_yielded, \* the values those calls returned, in order: those of
                 \* next and those of next_back
    cmp_ty,      \* the T of the Compress<T> (a type reference)
    cmp_op,      \* the last Compress operation
    cmp_arg,     \* the value Compress::new or the index Compress::nth was given
    compressed,  \* None, or Some of the T::Index a Compress<T> stores
    cmp_ret,     \* what expand or Compress::index_of returned
    map_ty,      \* the K of the ArrayMap<K, V> (a type reference)
    map_op,      \* the last ArrayMap operation
    map_f,       \* the closure the last operation (new, map_with_key, map) was given
    map_calls,   \* what it has called f with, in order (the keys; for
                 \* map_with_key and map, <<key, value>>)
    map_array,   \* the array of the map (while new runs, the part built)
    map_key,     \* the key of the last read or write
    map_ret,     \* the value the last operation, a read, returned
    map_written, \* for every key its initial value or the last value written to it
    map_out,     \* the array of the map that map_with_key or map builds
    unchecked    \* the indices the last operation handed to an unchecked
                 \* decode (unwrap_unchecked) or access (get_unchecked)

\* no value returned by next or next_back yet
NoneYielded == [next |-> <<>>, next_back |-> <<>>]

fin_vars == <<fin_op, fin_ty, fin_index, fin_value>>
uint_vars == <<uint_op, uint_n, uint_ret>>
set_vars ==
    <<set_ty, set_op, bitmap, set_ret, overflow_checks, panicked, set_arg,
      iter_start, iter_yielded>>
cmp_vars == <<cmp_ty, cmp_op, cmp_arg, compressed, cmp_ret>>
map_vars ==
    <<map_ty, map_op, map_f, map_calls, map_array, map_key, map_ret,
      map_written, map_out>>
vars == <<fin_vars, uint_vars, set_vars, cmp_vars, map_vars, unchecked>>

----------------------------------------------------------------------------
(* Bounds of the exploration *)

\* how far past COUNT the indices handed to nth go
MaxExtra == 3
\* for u16 only this many indices at each end of [0, COUNT) are drawn
MaxEdge == 4
\* the derived enums of n unit variants that are explored, n in 1..MaxEnumN
MaxEnumN == 5
\* log2 is called on 0..MaxLog2 and on 2^k - 1, 2^k, 2^k + 1 for k in 1..MaxLog2Exp
MaxLog2 == 40
MaxLog2Exp == 28
\* a set type with COUNT <= MaxDenseCount is handed every set, closure and
\* index of its kind; a larger one is handed a sample of them
MaxDenseCount == 4
\* Compress<T> is explored for derived types of COUNT 2^k - 1, 2^k, 2^k + 1,
\* k in 1..MaxCountExp
MaxCountExp == 18
\* the values of an ArrayMap are 0..MaxValue (0..1 for a key type that is
\* not dense)
MaxValue == 2

----------------------------------------------------------------------------
(* Type descriptions *)

Ty(kind, args) == [kind |-> kind, args |-> args]

TUnit == Ty("unit", <<>>)
TBool == Ty("bool", <<>>)
TU8 == Ty("u8", <<>>)
TU16 == Ty("u16", <<>>)
TOption(T) == Ty("option", <<T>>)
TPair(A, B) == Ty("pair", <<A, B>>)
\* struct S { a: A, b: B } and struct S(A, B): the derive treats both alike
TStruct(field_tys) == Ty("struct", field_tys)
\* struct S;
TUnitStruct == Ty("unit_struct", <<>>)
TEnum(variants) == Ty("enum", variants)
VUnit == Ty("Unit", <<>>)
VNamed(field_tys) == Ty("Named", field_tys)
VUnnamed(field_tys) == Ty("Unnamed", field_tys)

Color == TEnum(<<VUnit, VUnit, VUnit>>)
Tile == TEnum(<<VUnit, VUnnamed(<<Color>>), VUnnamed(<<Color>>),
                VNamed(<<Color, Color, TBool>>)>>)
Marker == TEnum(<<VUnnamed(<<TOption(Color)>>), VUnnamed(<<TOption(Color)>>)>>)
Specific == TEnum(<<VUnit, VUnit>>)
General == TEnum(<<VUnnamed(<<Specific>>), VUnit, VUnit>>)
Unit == TUnitStruct
ColorTriple == TStruct(<<Color, Color, Color>>)
Options == TStruct(<<Color, General>>)
MyType == TEnum(<<VUnit, VUnnamed(<<TBool>>), VUnnamed(<<TBool, TBool>>)>>)
\* enum E { V1, ..., Vn }
EnumN(n) == TEnum([k \in 1..n |-> VUnit])

RECURSIVE CountN(_)
\* a derived type of n values, for every n >= 1:
\*   struct One;   struct Even(bool, Half);   enum Odd { A, B(bool, Half) }
CountN(n) ==
    IF n = 1 THEN TUnitStruct
    ELSE IF n % 2 = 0 THEN TStruct(<<TBool, CountN(n \div 2)>>)
    ELSE TEnum(<<VUnit, VUnnamed(<<TBool, CountN(n \div 2)>>)>>)

\* derived types of COUNT 2^k, 2^k + 1 and 2^k - 1 (k >= 1):
\* struct Pow2(bool, ..., bool) with k fields; enum { A, B(bool, ..., bool) };
\* enum { V0, V1(bool), V2(bool, bool), ... } with k variants
Bools(k) == [i \in 1..k |-> TBool]
Pow2(k) == TStruct(Bools(k))
Pow2Plus1(k) == TEnum(<<VUnit, VUnnamed(Bools(k))>>)
Pow2Minus1(k) ==
    TEnum([j \in 1..k |-> IF j = 1 THEN VUnit ELSE VUnnamed(Bools(j - 1))])

None == <<>>
Some(v) == <<v>>
\* the result of a call that panicked
Panic == "panic"
Unwrap(o) == IF o = None THEN Panic ELSE o[1]

----------------------------------------------------------------------------
(* The Finite trait *)

RECURSIVE COUNT(_), index_of(_, _), nth(_, _)
RECURSIVE product_count(_), product_index_of_loop(_, _, _, _)
RECURSIVE product_nth_loop(_, _, _, _), derive_enum_loop(_, _, _, _, _)
RECURSIVE derive_enum_loop_no_step(_, _, _, _, _)

product_count(field_tys) ==
    IF field_tys = <<>> THEN 1
    ELSE IF Len(field_tys) = 1 THEN COUNT(Head(field_tys))
    ELSE product_count(SubSeq(field_tys, 1, Len(field_tys) - 1))
            * COUNT(field_tys[Len(field_tys)])

product_index_of_loop(field_tys, fields, j, index) ==
    IF j > Len(field_tys) THEN index
    ELSE product_index_of_loop(field_tys, fields, j + 1,
            index * COUNT(field_tys[j]) + index_of(field_tys[j], fields[j]))

Reverse(seq) == [j \in 1..Len(seq) |-> seq[Len(seq) + 1 - j]]

\* a faulty variant: the fold runs over the fields last to first
product_index_of_reversed(field_tys, fields) ==
    product_index_of_loop(Reverse(field_tys), Reverse(fields), 1, 0)

product_index_of(field_tys, fields) ==
    product_index_of_loop(field_tys, fields, 1, 0)

product_nth_loop(field_tys, j, index, fields) ==
    IF j = 0 THEN fields
    ELSE product_nth_loop(field_tys, j - 1, index \div COUNT(field_tys[j]),
            <<Unwrap(nth(field_tys[j], index % COUNT(field_tys[j])))>> \o fields)

product_nth(field_tys, index) ==
    product_nth_loop(field_tys, Len(field_tys), index, <<>>)

\* One pass of the derive over the variants k.. of an enum. count is the sum
\* the index_of arms add, const_count the running constant the nth arms use.
\* a faulty variant: the running constant is not stepped past end_index
derive_enum_loop_no_step(variants, k, count, const_count, arms) ==
    IF k > Len(variants) THEN [count |-> count, arms |-> arms]
    ELSE LET variant == variants[k]
             start_index == const_count
         IN  IF variant.kind = "Unit"
             THEN derive_enum_loop_no_step(variants, k + 1, count + 1,
                    start_index + 1,
                    Append(arms, [offset |-> start_index,
                                  start_index |-> start_index,
                                  end_index |-> start_index]))
             ELSE LET variant_count == product_count(variant.args)
                      end_index == start_index + variant_count - 1
                  IN  derive_enum_loop_no_step(variants, k + 1,
                        count + variant_count, end_index,
                        Append(arms, [offset |-> count,
                                      start_index |-> start_index,
                                      end_index |-> end_index]))

derive_enum_loop(variants, k, count, const_count, arms) ==
    IF k > Len(variants) THEN [count |-> count, arms |-> arms]
    ELSE LET variant == variants[k]
             start_index == const_count
         IN  IF variant.kind = "Unit"
             THEN derive_enum_loop(variants, k + 1, count + 1, start_index + 1,
                    Append(arms, [offset |-> start_index,
                                  start_index |-> start_index,
                                  end_index |-> start_index]))
             ELSE LET variant_count == product_count(variant.args)
                      end_index == start_index + variant_count - 1
                  IN  derive_enum_loop(variants, k + 1, count + variant_count,
                        end_index + 1,
                        Append(arms, [offset |-> count,
                                      start_index |-> start_index,
                                      end_index |-> end_index]))

derive_enum(variants) == derive_enum_loop(variants, 1, 0, 0, <<>>)

enum_index_of(variants, value) ==
    LET arm == derive_enum(variants).arms[value[1]]
    IN  IF variants[value[1]].kind = "Unit" THEN arm.start_index
        ELSE arm.offset + product_index_of(variants[value[1]].args, value[2])

\* a faulty variant: each arm's range runs one past end_index
enum_nth_end_plus_one(variants, index) ==
    LET arms == derive_enum(variants).arms
        matching == {k \in 1..Len(arms) :
                        arms[k].start_index <= index
                            /\ index <= arms[k].end_index + 1}
    IN  IF matching = {} THEN None
        ELSE LET k == CHOOSE m \in matching : \A o \in matching : m <= o
             IN  IF variants[k].kind = "Unit" THEN Some(<<k, <<>>>>)
                 ELSE Some(<<k, product_nth(variants[k].args,
                                            index - arms[k].start_index)>>)

enum_nth(variants, index) ==
    LET arms == derive_enum(variants).arms
        matching == {k \in 1..Len(arms) :
                        arms[k].start_index <= index /\ index <= arms[k].end_index}
    IN  IF matching = {} THEN None
        ELSE LET k == CHOOSE m \in matching : \A o \in matching : m <= o
             IN  IF variants[k].kind = "Unit" THEN Some(<<k, <<>>>>)
                 ELSE Some(<<k, product_nth(variants[k].args,
                                            index - arms[k].start_index)>>)

\* impl Finite for ()
unit_COUNT == 1
unit_index_of(value) == 0
unit_nth(index) == IF index = 0 THEN Some(<<>>) ELSE None

\* impl Finite for bool
bool_COUNT == 2
bool_index_of(value) == IF value THEN 1 ELSE 0
bool_nth(index) ==
    IF index = 0 THEN Some(FALSE)
    ELSE IF index = 1 THEN Some(TRUE)
    ELSE None

\* impl Finite for u8; "index as u8" keeps the low 8 bits
u8_COUNT == 2 ^ 8
u8_index_of(value) == value
u8_nth(index) == IF index < u8_COUNT THEN Some(index % (2 ^ 8)) ELSE None

\* impl Finite for u16; "index as u16" keeps the low 16 bits
u16_COUNT == 2 ^ 16
u16_index_of(value) == value
u16_nth(index) == IF index < u16_COUNT THEN Some(index % (2 ^ 16)) ELSE None

\* impl<T: Finite> Finite for Option<T>
option_COUNT(T) == 1 + COUNT(T)
\* a faulty variant: None is given the last index instead of the first
option_index_of_none_last(T, value) ==
    IF value = None THEN COUNT(T) ELSE index_of(T, value[1])

option_index_of(T, value) ==
    IF value = None THEN 0 ELSE 1 + index_of(T, value[1])
\* a faulty variant: the index is not shifted down past None
option_nth_no_shift(T, index) ==
    IF index = 0 THEN Some(None)
    ELSE IF index < 1 + COUNT(T) THEN Some(nth(T, index))
    ELSE None

option_nth(T, index) ==
    IF index = 0 THEN Some(None)
    ELSE IF index < option_COUNT(T) THEN Some(nth(T, index - 1))
    ELSE None

\* impl<A: Finite, B: Finite> Finite for (A, B)
pair_COUNT(A, B) == COUNT(A) * COUNT(B)
\* a faulty variant: the first component is weighted by its own COUNT
pair_index_of_wrong_radix(A, B, value) ==
    index_of(A, value[1]) * COUNT(A) + index_of(B, value[2])

pair_index_of(A, B, value) ==
    index_of(A, value[1]) * COUNT(B) + index_of(B, value[2])
pair_nth(A, B, index) ==
    IF index < pair_COUNT(A, B)
    THEN Some(<<Unwrap(nth(A, index \div COUNT(B))),
                Unwrap(nth(B, index % COUNT(B)))>>)
    ELSE None

\* #[derive(Finite)] on a struct with named or positional fields
struct_COUNT(field_tys) == product_count(field_tys)
struct_index_of(field_tys, value) == product_index_of(field_tys, value)
struct_nth(field_tys, index) ==
    IF index < struct_COUNT(field_tys)
    THEN Some(product_nth(field_tys, index))
    ELSE None

\* #[derive(Finite)] on a unit struct
unit_struct_COUNT == 1
unit_struct_index_of(value) == 0
unit_struct_nth(index) == IF index < 1 THEN Some(<<>>) ELSE None

\* #[derive(Finite)] on an enum
enum_COUNT(variants) == derive_enum(variants).count

\* The trait's items, resolved on the type they are called on.
COUNT(t) ==
    CASE t.kind = "unit" -> unit_COUNT
      [] t.kind = "bool" -> bool_COUNT
      [] t.kind = "u8" -> u8_COUNT
      [] t.kind = "u16" -> u16_COUNT
      [] t.kind = "option" -> option_COUNT(t.args[1])
      [] t.kind = "pair" -> pair_COUNT(t.args[1], t.args[2])
      [] t.kind = "struct" -> struct_COUNT(t.args)
      [] t.kind = "unit_struct" -> unit_struct_COUNT
      [] t.kind = "enum" -> enum_COUNT(t.args)

index_of(t, value) ==
    CASE t.kind = "unit" -> unit_index_of(value)
      [] t.kind = "bool" -> bool_index_of(value)
      [] t.kind = "u8" -> u8_index_of(value)
      [] t.kind = "u16" -> u16_index_of(value)
      [] t.kind = "option" -> option_index_of(t.args[1], value)
      [] t.kind = "pair" -> pair_index_of(t.args[1], t.args[2], value)
      [] t.kind = "struct" -> struct_index_of(t.args, value)
      [] t.kind = "unit_struct" -> unit_struct_index_of(value)
      [] t.kind = "enum" -> enum_index_of(t.args, value)

nth(t, index) ==
    CASE t.kind = "unit" -> unit_nth(index)
      [] t.kind = "bool" -> bool_nth(index)
      [] t.kind = "u8" -> u8_nth(index)
      [] t.kind = "u16" -> u16_nth(index)
      [] t.kind = "option" -> option_nth(t.args[1], index)
      [] t.kind = "pair" -> pair_nth(t.args[1], t.args[2], index)
      [] t.kind = "struct" -> struct_nth(t.args, index)
      [] t.kind = "unit_struct" -> unit_struct_nth(index)
      [] t.kind = "enum" -> enum_nth(t.args, index)

----------------------------------------------------------------------------
(* The values of a type, and their order (Ord) *)

RECURSIVE Values(_), ProductValues(_), Lt(_, _, _), ProductLt(_, _, _, _)

ProductValues(field_tys) ==
    IF field_tys = <<>> THEN {<<>>}
    ELSE {<<h>> \o r : h \in Values(Head(field_tys)),
                       r \in ProductValues(Tail(field_tys))}

Values(t) ==
    CASE t.kind = "unit" -> {<<>>}
      [] t.kind = "bool" -> BOOLEAN
      [] t.kind = "u8" -> 0..(2 ^ 8 - 1)
      [] t.kind = "u16" -> 0..(2 ^ 16 - 1)
      [] t.kind = "option" -> {None} \cup {Some(v) : v \in Values(t.args[1])}
      [] t.kind = "pair" -> ProductValues(t.args)
      [] t.kind = "struct" -> ProductValues(t.args)
      [] t.kind = "unit_struct" -> {<<>>}
      [] t.kind = "enum" ->
            UNION {{<<k, f>> : f \in ProductValues(t.args[k].args)} :
                        k \in 1..Len(t.args)}

\* lexicographic order of two field lists, from field j on
ProductLt(field_tys, a, b, j) ==
    IF j > Len(field_tys) THEN FALSE
    ELSE \/ Lt(field_tys[j], a[j], b[j])
         \/ a[j] = b[j] /\ ProductLt(field_tys, a, b, j + 1)

\* a < b under the type's Ord (the built-in one, or #[derive(PartialOrd, Ord)])
Lt(t, a, b) ==
    CASE t.kind = "unit" -> FALSE
      [] t.kind = "bool" -> ~a /\ b
      [] t.kind = "u8" -> a < b
      [] t.kind = "u16" -> a < b
      [] t.kind = "option" ->
            IF a = None THEN b # None
            ELSE b # None /\ Lt(t.args[1], a[1], b[1])
      [] t.kind = "pair" -> ProductLt(t.args, a, b, 1)
      [] t.kind = "struct" -> ProductLt(t.args, a, b, 1)
      [] t.kind = "unit_struct" -> FALSE
      [] t.kind = "enum" ->
            \/ a[1] < b[1]
            \/ a[1] = b[1] /\ ProductLt(t.args[a[1]].args, a[2], b[2], 1)

----------------------------------------------------------------------------
(* The types the Finite calls are made on *)

FiniteTypes ==
    {<<"()", 0>>, <<"bool", 0>>, <<"u8", 0>>, <<"u16", 0>>,
     <<"Option<Color>", 0>>, <<"Option<bool>", 0>>, <<"Option<Option<bool>>", 0>>,
     <<"(Color, Color)", 0>>, <<"(bool, Color)", 0>>, <<"(Option<bool>, bool)", 0>>,
     <<"Color", 0>>, <<"Tile", 0>>, <<"Marker", 0>>, <<"General", 0>>,
     <<"Specific", 0>>, <<"Unit", 0>>, <<"ColorTriple", 0>>, <<"Options", 0>>,
     <<"MyType", 0>>, <<"Option<MyType>", 0>>}
    \cup {<<"EnumN", n>> : n \in 1..MaxEnumN}

Desc(tr) ==
    CASE tr[1] = "()" -> TUnit
      [] tr[1] = "bool" -> TBool
      [] tr[1] = "u8" -> TU8
      [] tr[1] = "u16" -> TU16
      [] tr[1] = "Option<Color>" -> TOption(Color)
      [] tr[1] = "Option<bool>" -> TOption(TBool)
      [] tr[1] = "Option<Option<bool>>" -> TOption(TOption(TBool))
      [] tr[1] = "(Color, Color)" -> TPair(Color, Color)
      [] tr[1] = "(bool, Color)" -> TPair(TBool, Color)
      [] tr[1] = "(Option<bool>, bool)" -> TPair(TOption(TBool), TBool)
      [] tr[1] = "Color" -> Color
      [] tr[1] = "Tile" -> Tile
      [] tr[1] = "Marker" -> Marker
      [] tr[1] = "General" -> General
      [] tr[1] = "Specific" -> Specific
      [] tr[1] = "Unit" -> Unit
      [] tr[1] = "ColorTriple" -> ColorTriple
      [] tr[1] = "Options" -> Options
      [] tr[1] = "MyType" -> MyType
      [] tr[1] = "Option<MyType>" -> TOption(MyType)
      [] tr[1] = "EnumN" -> EnumN(tr[2])
      [] tr[1] = "CountN" -> CountN(tr[2])
      [] tr[1] = "Pow2" -> Pow2(tr[2])
      [] tr[1] = "Pow2Plus1" -> Pow2Plus1(tr[2])
      [] tr[1] = "Pow2Minus1" -> Pow2Minus1(tr[2])

\* the indices handed to nth: all of 0..COUNT + MaxExtra, or for u16 both ends
Indices(t) ==
    IF t.kind = "u16"
    THEN (0..MaxEdge) \cup ((COUNT(t) - 1 - MaxEdge)..(COUNT(t) + MaxExtra))
    ELSE 0..(COUNT(t) + MaxExtra)

\* the values handed to index_of: every value, or for u16 both ends
InputValues(t) ==
    IF t.kind = "u16"
    THEN (0..MaxEdge) \cup ((COUNT(t) - 1 - MaxEdge)..(COUNT(t) - 1))
    ELSE Values(t)

----------------------------------------------------------------------------
(* src/src/uint.rs: unsigned integers *)

\* An unsigned integer of w bits is the set of the positions of its one bits,
\* a subset of 0..w-1; u0 is the integer of 0 bits. An operation that can
\* overflow returns [panic, bits]: under overflow checks (a debug build) the
\* overflow panics, without them (a release build) the shift amount is
\* reduced modulo the width and the subtraction wraps.

\* the width of usize
USIZE_BITS == 64
\* the largest N for which Uint<N> is defined
MAX_BITS == 128

Ok(bits) == [panic |-> FALSE, bits |-> bits]
Panicked == [panic |-> TRUE, bits |-> {}]

Min(S) == CHOOSE m \in S : \A o \in S : m <= o
Max(S) == CHOOSE m \in S : \A o \in S : m >= o

RECURSIVE bit_length(_)
\* the number of bits of n without its leading zeros
bit_length(n) == IF n = 0 THEN 0 ELSE 1 + bit_length(n \div 2)

\* usize::leading_zeros
usize_leading_zeros(n) == USIZE_BITS - bit_length(n)

\* pub const fn log2(n: usize) -> usize
log2(n) == 64 - usize_leading_zeros(n)

\* impl_uint_for!(n, uN): the width of the type Uint<n> names, n in 0..128
\* the registry with the entry for 9 bits slipped to u8
Uint_nine_is_u8(n) ==
    CASE n = 0 -> 0
      [] n \in 1..9 -> 8
      [] n \in 10..16 -> 16
      [] n \in 17..32 -> 32
      [] n \in 33..64 -> 64
      [] n \in 65..128 -> 128

Uint(n) ==
    CASE n = 0 -> 0
      [] n \in 1..8 -> 8
      [] n \in 9..16 -> 16
      [] n \in 17..32 -> 32
      [] n \in 33..64 -> 64
      [] n \in 65..128 -> 128

ZERO == {}

\* bit b of a usize; the model's usize values stay below 2^31
usize_bit(source, b) == b < 31 /\ (source \div (2 ^ b)) % 2 = 1

\* source as uN: the low w bits
from_usize_unchecked(w, source) == {b \in 0..(w - 1) : usize_bit(source, b)}

\* self as usize, the usize as the positions of its one bits
as_usize(x) == {b \in x : b < USIZE_BITS}

RECURSIVE to_usize(_)
\* self as usize
to_usize(x) ==
    IF x = {} THEN 0 ELSE 2 ^ Max(x) + to_usize(x \ {Max(x)})

\* 1 << i at width w
shl_one(w, i, checks) ==
    IF i < w THEN Ok({i})
    ELSE IF checks THEN Panicked
    ELSE Ok({i % w})

\* x - 1 at width w
sub_one(w, x, checks) ==
    IF x # {} THEN Ok((x \ {Min(x)}) \cup 0..(Min(x) - 1))
    ELSE IF checks THEN Panicked
    ELSE Ok(0..(w - 1))

\* Unsigned::ones: (1 << n) - 1, and u0 for the zero-bit type
ones(w, n, checks) ==
    IF w = 0 THEN Ok({})
    ELSE LET shifted == shl_one(w, n, checks)
         IN  IF shifted.panic THEN Panicked
             ELSE sub_one(w, shifted.bits, checks)

\* Unsigned::one_at: 1 << i, and u0 for the zero-bit type
one_at(w, i, checks) ==
    IF w = 0 THEN Ok({}) ELSE shl_one(w, i, checks)

\* Unsigned::count_ones
count_ones(x) == Cardinality(x)

trailing_zeros(w, x) == IF x = {} THEN w ELSE Min(x)
leading_zeros(w, x) == IF x = {} THEN w ELSE w - 1 - Max(x)

\* Unsigned::first_one counting the zeros from the high end
first_one_highest(w, x) ==
    IF w = 0 THEN None
    ELSE LET res == leading_zeros(w, x)
         IN  IF res < w THEN Some(w - res - 1) ELSE None

\* Unsigned::first_one
first_one(w, x) ==
    IF w = 0 THEN None
    ELSE LET res == trailing_zeros(w, x)
         IN  IF res < w THEN Some(res) ELSE None

\* Unsigned::last_one
last_one(w, x) ==
    IF w = 0 THEN None
    ELSE LET res == leading_zeros(w, x)
         IN  IF res < w THEN Some(w - res - 1) ELSE None

\* the operators | & ^ ! at width w
bitor(x, y) == x \cup y
bitand(x, y) == x \cap y
bitxor(x, y) == (x \ y) \cup (y \ x)
not(w, x) == (0..(w - 1)) \ x

----------------------------------------------------------------------------
(* src/src/compress.rs: Compress<T> *)

\* A Compress<T> is the T::Index it stores, an unsigned integer.

\* the Index sized by log2(T::COUNT) instead of log2(T::COUNT - 1)
Index_by_count(t) == Uint(log2(COUNT(t)))

\* <T as CompressFinite>::Index = Uint<{ log2(T::COUNT - 1) }>: its width
Index(t) == Uint(log2(COUNT(t) - 1))

\* Compress::new storing the index in a u8 whatever the type
compress_new_as_u8(t, value) == from_usize_unchecked(8, index_of(t, value))

\* Compress::new
compress_new(t, value) == from_usize_unchecked(Index(t), index_of(t, value))

\* the index Compress::expand hands to T::nth(..).unwrap_unchecked()
expand_index(c) == to_usize(c)

\* Compress::expand: T::nth of the stored index, an Option that the code
\* unwraps unchecked
expand(t, c) == nth(t, expand_index(c))

\* compress(value)
compress(t, value) == compress_new(t, value)

\* <Compress<T> as Finite>::COUNT
compress_COUNT(t) == COUNT(t)

\* <Compress<T> as Finite>::index_of returning half the stored index
compress_index_of_halved(c) == to_usize(c) \div 2

\* <Compress<T> as Finite>::index_of
compress_index_of(c) == to_usize(c)

\* <Compress<T> as Finite>::nth with index <= COUNT for its test
compress_nth_through_count(t, index) ==
    IF index <= compress_COUNT(t)
    THEN Some(from_usize_unchecked(Index(t), index))
    ELSE None

\* <Compress<T> as Finite>::nth
compress_nth(t, index) ==
    IF index < compress_COUNT(t)
    THEN Some(from_usize_unchecked(Index(t), index))
    ELSE None

----------------------------------------------------------------------------
(* src/src/set.rs: BitmapSet<T> *)

\* the types whose sets are explored by every operation
ExploredSetTypes ==
    {<<"()", 0>>, <<"bool", 0>>, <<"Color", 0>>, <<"Option<Color>", 0>>,
     <<"MyType", 0>>, <<"Option<MyType>", 0>>}

\* the types a BitmapSet is made of: the explored ones, and a type of every
\* COUNT the registry has a Bitmap for
SetTypes == ExploredSetTypes \cup {<<"CountN", n>> : n \in 1..MAX_BITS}

\* T::COUNT, T::index_of and T::nth of the set types, evaluated once
T_COUNT == [tr \in SetTypes |-> COUNT(Desc(tr))]
T_index_of ==
    [tr \in ExploredSetTypes |->
        [value \in Values(Desc(tr)) |-> index_of(Desc(tr), value)]]
T_nth ==
    [tr \in ExploredSetTypes |->
        [index \in 0..(T_COUNT[tr] - 1) |-> nth(Desc(tr), index)]]
T_Values == [tr \in ExploredSetTypes |-> Values(Desc(tr))]

\* compress(value) of the values of the explored types, evaluated once
T_compress ==
    [tr \in ExploredSetTypes |->
        [value \in Values(Desc(tr)) |-> compress(Desc(tr), value)]]

\* <T as BitmapFinite>::Bitmap = Uint<{ T::COUNT }>: its width
Bitmap == [tr \in SetTypes |-> Uint(T_COUNT[tr])]

\* T::nth(index).unwrap_unchecked(), for an index below COUNT
unwrap_unchecked_nth(tr, index) == T_nth[tr][index][1]

\* BitmapSet::all
all(tr, checks) == ones(Bitmap[tr], T_COUNT[tr], checks)

\* BitmapSet::none
none == ZERO

\* BitmapSet::only
only(tr, value, checks) == one_at(Bitmap[tr], T_index_of[tr][value], checks)

RECURSIVE new_loop(_, _, _, _, _)
\* the loop of BitmapSet::new from index i on
new_loop(tr, f, i, bits, checks) ==
    IF i >= T_COUNT[tr] THEN Ok(bits)
    ELSE IF f[unwrap_unchecked_nth(tr, i)]
    THEN LET mask == one_at(Bitmap[tr], i, checks)
         IN  IF mask.panic THEN Panicked
             ELSE new_loop(tr, f, i + 1, bitor(bits, mask.bits), checks)
    ELSE new_loop(tr, f, i + 1, bits, checks)

RECURSIVE new_indices(_, _, _)
\* the indices the loop of BitmapSet::new hands to
\* T::nth(..).unwrap_unchecked() from index i on: for i in 0..T::COUNT
new_indices(tr, i, seen) ==
    IF i >= T_COUNT[tr] THEN seen
    ELSE new_indices(tr, i + 1, seen \cup {i})

RECURSIVE new_calls(_, _, _, _, _)
\* the values the loop of BitmapSet::new calls f with from index i on, in
\* order: f(T::nth(i).unwrap_unchecked()) for i in 0..T::COUNT, until a
\* shift panics
new_calls(tr, f, i, calls, checks) ==
    IF i >= T_COUNT[tr] THEN calls
    ELSE LET value == unwrap_unchecked_nth(tr, i)
             called == Append(calls, value)
         IN  IF f[value] /\ one_at(Bitmap[tr], i, checks).panic THEN called
             ELSE new_calls(tr, f, i + 1, called, checks)

\* BitmapSet::new
new(tr, f, checks) == new_loop(tr, f, 0, ZERO, checks)

\* BitmapSet::size
size(bits) == count_ones(bits)

\* BitmapSet::is_none
is_none(bits) == bits = ZERO

\* Set<T>::contains
contains(tr, bits, value, checks) ==
    LET mask == one_at(Bitmap[tr], T_index_of[tr][value], checks)
    IN  IF mask.panic THEN Panicked
        ELSE Ok(bitand(bits, mask.bits) # ZERO)

\* Set<T>::include with ^ for |
include_toggle(tr, bits, value, checks) ==
    LET mask == one_at(Bitmap[tr], T_index_of[tr][value], checks)
    IN  IF mask.panic THEN Panicked ELSE Ok(bitxor(bits, mask.bits))

\* Set<T>::include
include(tr, bits, value, checks) ==
    LET mask == one_at(Bitmap[tr], T_index_of[tr][value], checks)
    IN  IF mask.panic THEN Panicked ELSE Ok(bitor(bits, mask.bits))

\* Set<T>::exclude
exclude(tr, bits, value, checks) ==
    LET mask == one_at(Bitmap[tr], T_index_of[tr][value], checks)
    IN  IF mask.panic THEN Panicked
        ELSE Ok(bitand(bits, not(Bitmap[tr], mask.bits)))

\* Set<Compress<T>>::contains
contains_compress(tr, bits, c, checks) ==
    LET mask == one_at(Bitmap[tr], compress_index_of(c), checks)
    IN  IF mask.panic THEN Panicked
        ELSE Ok(bitand(bits, mask.bits) # ZERO)

\* Set<Compress<T>>::include
include_compress(tr, bits, c, checks) ==
    LET mask == one_at(Bitmap[tr], compress_index_of(c), checks)
    IN  IF mask.panic THEN Panicked ELSE Ok(bitor(bits, mask.bits))

\* Set<Compress<T>>::exclude
exclude_compress(tr, bits, c, checks) ==
    LET mask == one_at(Bitmap[tr], compress_index_of(c), checks)
    IN  IF mask.panic THEN Panicked
        ELSE Ok(bitand(bits, not(Bitmap[tr], mask.bits)))

\* the index next hands to T::nth(..).unwrap_unchecked(), if any
next_index(tr, bits) == first_one(Bitmap[tr], bits)

\* the index next_back hands to T::nth(..).unwrap_unchecked(), if any
next_back_index(tr, bits) == last_one(Bitmap[tr], bits)

\* Iterator::next: [panic, bits, ret], the set left and the value returned
next(tr, bits, checks) ==
    LET found == first_one(Bitmap[tr], bits)
    IN  IF found = None THEN [panic |-> FALSE, bits |-> bits, ret |-> None]
        ELSE LET mask == one_at(Bitmap[tr], found[1], checks)
             IN  IF mask.panic THEN [panic |-> TRUE, bits |-> bits, ret |-> None]
                 ELSE [panic |-> FALSE,
                       bits |-> bitand(bits, not(Bitmap[tr], mask.bits)),
                       ret |-> Some(unwrap_unchecked_nth(tr, found[1]))]

\* a faulty variant: next_back returning the last value and clearing the bit
\* of the first
next_back_clears_first(tr, bits, checks) ==
    LET found == last_one(Bitmap[tr], bits)
        first == first_one(Bitmap[tr], bits)
    IN  IF found = None THEN [panic |-> FALSE, bits |-> bits, ret |-> None]
        ELSE LET mask == one_at(Bitmap[tr], first[1], checks)
             IN  IF mask.panic THEN [panic |-> TRUE, bits |-> bits, ret |-> None]
                 ELSE [panic |-> FALSE,
                       bits |-> bitand(bits, not(Bitmap[tr], mask.bits)),
                       ret |-> Some(unwrap_unchecked_nth(tr, found[1]))]

\* DoubleEndedIterator::next_back
next_back(tr, bits, checks) ==
    LET found == last_one(Bitmap[tr], bits)
    IN  IF found = None THEN [panic |-> FALSE, bits |-> bits, ret |-> None]
        ELSE LET mask == one_at(Bitmap[tr], found[1], checks)
             IN  IF mask.panic THEN [panic |-> TRUE, bits |-> bits, ret |-> None]
                 ELSE [panic |-> FALSE,
                       bits |-> bitand(bits, not(Bitmap[tr], mask.bits)),
                       ret |-> Some(unwrap_unchecked_nth(tr, found[1]))]

\* the operators & | ^ - of two sets
set_bitand(x, y) == bitand(x, y)
set_bitor(x, y) == bitor(x, y)
set_bitxor(x, y) == bitxor(x, y)
\* the operator - as ^
set_sub_as_bitxor(tr, x, y) == bitxor(x, y)
set_sub(tr, x, y) == bitand(x, not(Bitmap[tr], y))

\* PartialEq::eq: self.0 == other.0
set_eq(x, y) == x = y

\* Ord::cmp: self.0.cmp(&other.0), decided at the highest bit that differs
set_cmp(x, y) ==
    IF x = y THEN "Equal"
    ELSE IF Max(bitxor(x, y)) \in y THEN "Less"
    ELSE "Greater"

\* <BitmapSet<T> as Finite>::COUNT = 1 << T::COUNT
set_COUNT(tr) == 2 ^ T_COUNT[tr]

\* <BitmapSet<T> as Finite>::index_of, the usize as the positions of its
\* one bits: value.0 as usize keeps the low USIZE_BITS bits
set_index_of_bits(bits) == as_usize(bits)

\* <BitmapSet<T> as Finite>::index_of
set_index_of(bits) == to_usize(bits)

\* <BitmapSet<T> as Finite>::nth without its test of the index
set_nth_unguarded(tr, index) ==
    Some(from_usize_unchecked(Bitmap[tr], index))

\* <BitmapSet<T> as Finite>::nth: None, or Some of the bitmap
set_nth(tr, index) ==
    IF index < set_COUNT(tr)
    THEN Some(from_usize_unchecked(Bitmap[tr], index))
    ELSE None

----------------------------------------------------------------------------
(* src/src/map.rs, src/src/array.rs: ArrayMap<K, V> *)

\* An ArrayMap<K, V> is its array [V; K::COUNT], a sequence of K::COUNT
\* values; slot index of the code is element index + 1 of the sequence.

\* the index array_init hands to the initializer next: the elements are
\* made in order, so it is the number of elements made
array_init_next(built) == Len(built)

\* the closure ArrayMap::new hands to Array::new, with the key at the far end
new_closure_mirrored(tr, f, k) ==
    LET key == unwrap_unchecked_nth(tr, T_COUNT[tr] - 1 - k)
    IN  [key |-> key, value |-> f[key]]

\* the closure ArrayMap::new hands to Array::new:
\* |k| f(K::nth(k).unwrap_unchecked()); the key f is called with, and its value
new_closure(tr, f, k) ==
    LET key == unwrap_unchecked_nth(tr, k)
    IN  [key |-> key, value |-> f[key]]

\* ArrayMap::from
map_from(array) == array

\* ArrayMap::default, for a V whose default is 0
map_default(tr) == [i \in 1..T_COUNT[tr] |-> 0]

\* the slot Index<K> and IndexMut<K> access: K::index_of(index)
index_slot(tr, key) == T_index_of[tr][key]

\* the slot Index<Compress<K>> and IndexMut<Compress<K>> access:
\* Compress::index_of(index)
index_slot_compress(c) == compress_index_of(c)

\* self.0.as_slice().get_unchecked(index)
get_unchecked(array, slot) == array[slot + 1]

\* *self.0.as_slice_mut().get_unchecked_mut(index) = x
set_unchecked(array, slot, x) == [array EXCEPT ![slot + 1] = x]

\* the closure map_with_key hands to Array::new, reading the slot 0 of the
\* map for every key
map_with_key_closure_first_slot(tr, array, f, k) ==
    LET key == unwrap_unchecked_nth(tr, k)
        v == get_unchecked(array, 0)
    IN  [key |-> key, old |-> v, value |-> f[<<key, v>>]]

\* the closure map_with_key hands to Array::new:
\* |k| f(K::nth(k).unwrap_unchecked(), self.0.as_slice().get_unchecked(k));
\* the key and the value f is called with, and what it returns
map_with_key_closure(tr, array, f, k) ==
    LET key == unwrap_unchecked_nth(tr, k)
        v == get_unchecked(array, k)
    IN  [key |-> key, old |-> v, value |-> f[<<key, v>>]]

\* the closure map hands to map_with_key: |_, v| f(v)
map_closure(tr, f) == [kv \in T_Values[tr] \X DOMAIN f |-> f[kv[2]]]

\* Index<K>::index
map_index(tr, array, key) == get_unchecked(array, index_slot(tr, key))

\* map[key] = x with every write landing in slot 0
map_index_mut_first_slot(tr, array, key, x) == set_unchecked(array, 0, x)

\* IndexMut<K>::index_mut, followed by the assignment of x
map_index_mut(tr, array, key, x) ==
    set_unchecked(array, index_slot(tr, key), x)

\* Index<Compress<K>>::index
map_index_compress(array, c) == get_unchecked(array, index_slot_compress(c))

\* IndexMut<Compress<K>>::index_mut, followed by the assignment of x
map_index_mut_compress(array, c, x) ==
    set_unchecked(array, index_slot_compress(c), x)

----------------------------------------------------------------------------
(* The Finite calls *)

\* the variables of the parts a specification does not exercise
FinIdle ==
    /\ fin_op = "idle"
    /\ fin_ty = <<"()", 0>>
    /\ fin_index = 0
    /\ fin_value = None

UintIdle ==
    /\ uint_op = "idle"
    /\ uint_n = 0
    /\ uint_ret = 0

SetIdle ==
    /\ set_ty = <<"()", 0>>
    /\ set_op = "idle"
    /\ bitmap = {}
    /\ set_ret = None
    /\ overflow_checks = FALSE
    /\ panicked = FALSE
    /\ set_arg = <<>>
    /\ iter_start = {}
    /\ iter_yielded = NoneYielded

CmpIdle ==
    /\ cmp_ty = <<"()", 0>>
    /\ cmp_op = "idle"
    /\ cmp_arg = <<>>
    /\ compressed = None
    /\ cmp_ret = <<>>

MapIdle ==
    /\ map_ty = <<"()", 0>>
    /\ map_op = "idle"
    /\ map_f = <<>>
    /\ map_calls = <<>>
    /\ map_array = <<>>
    /\ map_key = <<>>
    /\ map_ret = <<>>
    /\ map_written = <<>>
    /\ map_out = <<>>

\* A call is drawn (the type, and the index or the value it is made on) and
\* then made.
Init ==
    /\ UintIdle
    /\ SetIdle
    /\ CmpIdle
    /\ MapIdle
    /\ unchecked = {}
    /\ \E tr \in FiniteTypes :
        /\ fin_ty = tr
        /\ \/ /\ fin_op = "call nth"
              /\ fin_index \in Indices(Desc(tr))
              /\ fin_value = None
           \/ /\ fin_op = "call index_of"
              /\ fin_value \in InputValues(Desc(tr))
              /\ fin_index = 0

\* F::nth(index)
Nth ==
    /\ fin_op = "call nth"
    /\ fin_op' = "nth"
    /\ fin_value' = nth(Desc(fin_ty), fin_index)
    /\ UNCHANGED <<fin_ty, fin_index, uint_vars, set_vars, cmp_vars, map_vars, unchecked>>

\* F::index_of(value)
IndexOf ==
    /\ fin_op = "call index_of"
    /\ fin_op' = "index_of"
    /\ fin_index' = index_of(Desc(fin_ty), fin_value)
    /\ UNCHANGED <<fin_ty, fin_value, uint_vars, set_vars, cmp_vars, map_vars, unchecked>>

Next == Nth \/ IndexOf

Spec == Init /\ [][Next]_vars

----------------------------------------------------------------------------
(* The calls of log2 and the uses of Uint<N> *)

Log2Inputs ==
    (0..MaxLog2)
    \cup UNION {{2 ^ k - 1, 2 ^ k, 2 ^ k + 1} : k \in 1..MaxLog2Exp}

InitUint ==
    /\ FinIdle
    /\ SetIdle
    /\ CmpIdle
    /\ MapIdle
    /\ unchecked = {}
    /\ uint_ret = 0
    /\ \/ /\ uint_op = "call log2"
          /\ uint_n \in Log2Inputs
       \/ /\ uint_op = "call Uint"
          /\ uint_n \in 0..MAX_BITS

\* uint::log2(n)
Log2 ==
    /\ uint_op = "call log2"
    /\ uint_op' = "log2"
    /\ uint_ret' = log2(uint_n)
    /\ UNCHANGED <<uint_n, fin_vars, set_vars, cmp_vars, map_vars, unchecked>>

\* Uint<N> resolved to its type
ResolveUint ==
    /\ uint_op = "call Uint"
    /\ uint_op' = "Uint"
    /\ uint_ret' = Uint(uint_n)
    /\ UNCHANGED <<uint_n, fin_vars, set_vars, cmp_vars, map_vars, unchecked>>

NextUint == Log2 \/ ResolveUint

SpecUint == InitUint /\ [][NextUint]_vars

----------------------------------------------------------------------------
(* The operations on one BitmapSet<T> *)

\* whether every set, closure and index of the type is drawn, or a sample
Dense(tr) == T_COUNT[tr] <= MaxDenseCount

\* the sets handed as the right operand of & | ^ -
RhsSets(tr, checks) ==
    IF Dense(tr)
    THEN {set_nth(tr, i)[1] : i \in 0..(set_COUNT(tr) - 1)}
    ELSE {none}
            \cup {only(tr, v, checks).bits : v \in T_Values[tr]}
            \cup {r.bits : r \in {x \in {all(tr, checks)} : ~x.panic}}

\* the closures handed to new: every predicate, or for the larger types the
\* constant ones and x == u, x != u, x < u
NewClosures(tr) ==
    IF Dense(tr)
    THEN [T_Values[tr] -> BOOLEAN]
    ELSE {[v \in T_Values[tr] |-> c] : c \in BOOLEAN}
            \cup {[v \in T_Values[tr] |-> v = u] : u \in T_Values[tr]}
            \cup {[v \in T_Values[tr] |-> v # u] : u \in T_Values[tr]}
            \cup {[v \in T_Values[tr] |-> T_index_of[tr][v] < T_index_of[tr][u]] :
                        u \in T_Values[tr]}

\* the indices handed to <BitmapSet<T> as Finite>::nth
SetIndices(tr) ==
    IF Dense(tr)
    THEN 0..(set_COUNT(tr) + MaxExtra)
    ELSE (0..MaxEdge)
            \cup ((set_COUNT(tr) - 1 - MaxEdge)..(set_COUNT(tr) + MaxExtra))

InitSet ==
    /\ FinIdle
    /\ UintIdle
    /\ CmpIdle
    /\ MapIdle
    /\ unchecked = {}
    /\ set_ty \in SetTypes
    /\ overflow_checks \in BOOLEAN
    /\ set_op = "none"
    /\ bitmap = none
    /\ set_ret = None
    /\ panicked = FALSE
    /\ set_arg = <<>>
    /\ iter_start = {}
    /\ iter_yielded = NoneYielded

\* the step of an operation on arg that leaves the set r.bits, or panics;
\* decoded are the indices it hands to T::nth(..).unwrap_unchecked()
SetCall(op, arg, r, ret, decoded) ==
    /\ set_op # "idle"
    /\ ~panicked
    /\ set_op' = op
    /\ set_arg' = arg
    /\ panicked' = r.panic
    /\ bitmap' = IF r.panic THEN bitmap ELSE r.bits
    /\ set_ret' = IF r.panic THEN None ELSE ret
    /\ unchecked' = decoded
    /\ iter_start' =
            IF op \in {"next", "next_back"} \/ r.panic THEN iter_start
            ELSE r.bits
    /\ iter_yielded' =
            IF op \notin {"next", "next_back"} THEN NoneYielded
            ELSE IF r.panic \/ ret = None THEN iter_yielded
            ELSE [iter_yielded EXCEPT ![op] = Append(@, ret[1])]
    /\ UNCHANGED <<set_ty, overflow_checks, fin_vars, uint_vars, cmp_vars,
                   map_vars>>

\* the step of an operation without an argument that decodes no index
SetStep(op, r, ret) == SetCall(op, <<>>, r, ret, {})

\* A set is made by a constructor and then operated on: all, only, new and
\* nth replace a set fresh from none(), and none() may be called at any time.
Fresh == set_op = "none"

\* set = BitmapSet::none()
SetNone == SetStep("none", Ok(none), None)

\* set = BitmapSet::all()
SetAll ==
    /\ Fresh
    /\ SetStep("all", all(set_ty, overflow_checks), None)

\* set = BitmapSet::only(value)
SetOnly ==
    /\ Fresh
    /\ set_ty \in ExploredSetTypes
    /\ \E value \in T_Values[set_ty] :
            SetCall("only", <<value>>, only(set_ty, value, overflow_checks),
                    None, {})

\* set = BitmapSet::new(f)
SetNew ==
    /\ Fresh
    /\ set_ty \in ExploredSetTypes
    /\ \E f \in NewClosures(set_ty) :
            SetCall("new", <<f, new_calls(set_ty, f, 0, <<>>, overflow_checks)>>,
                    new(set_ty, f, overflow_checks), None,
                    new_indices(set_ty, 0, {}))

\* if let Some(s) = <BitmapSet<T> as Finite>::nth(index) { set = s }
SetFiniteNth ==
    /\ Fresh
    /\ set_ty \in ExploredSetTypes
    /\ \E index \in SetIndices(set_ty) :
            LET found == set_nth(set_ty, index)
            IN  SetCall("nth", <<index>>,
                        Ok(IF found = None THEN bitmap ELSE found[1]),
                        found, {})

\* set.contains(value)
SetContains ==
    /\ set_ty \in ExploredSetTypes
    /\ \E value \in T_Values[set_ty] :
            LET r == contains(set_ty, bitmap, value, overflow_checks)
            IN  SetCall("contains", <<value>>,
                        [panic |-> r.panic, bits |-> bitmap], Some(r.bits), {})

\* set.include(value)
SetInclude ==
    /\ set_ty \in ExploredSetTypes
    /\ \E value \in T_Values[set_ty] :
            SetCall("include", <<value>>,
                    include(set_ty, bitmap, value, overflow_checks), None, {})

\* set.exclude(value)
SetExclude ==
    /\ set_ty \in ExploredSetTypes
    /\ \E value \in T_Values[set_ty] :
            SetCall("exclude", <<value>>,
                    exclude(set_ty, bitmap, value, overflow_checks), None, {})

\* set.contains(compress(value))
SetContainsCompress ==
    /\ set_ty \in ExploredSetTypes
    /\ \E value \in T_Values[set_ty] :
            LET r == contains_compress(set_ty, bitmap,
                                       T_compress[set_ty][value],
                                       overflow_checks)
            IN  SetCall("contains compress", <<value>>,
                        [panic |-> r.panic, bits |-> bitmap], Some(r.bits), {})

\* set.include(compress(value))
SetIncludeCompress ==
    /\ set_ty \in ExploredSetTypes
    /\ \E value \in T_Values[set_ty] :
            SetCall("include compress", <<value>>,
                    include_compress(set_ty, bitmap, T_compress[set_ty][value],
                                     overflow_checks),
                    None, {})

\* set.exclude(compress(value))
SetExcludeCompress ==
    /\ set_ty \in ExploredSetTypes
    /\ \E value \in T_Values[set_ty] :
            SetCall("exclude compress", <<value>>,
                    exclude_compress(set_ty, bitmap, T_compress[set_ty][value],
                                     overflow_checks),
                    None, {})

\* set = set & rhs, set &= rhs
SetBitAnd ==
    /\ set_ty \in ExploredSetTypes
    /\ \E rhs \in RhsSets(set_ty, overflow_checks) :
            SetStep("bitand", Ok(set_bitand(bitmap, rhs)), None)

\* set = set | rhs, set |= rhs
SetBitOr ==
    /\ set_ty \in ExploredSetTypes
    /\ \E rhs \in RhsSets(set_ty, overflow_checks) :
            SetStep("bitor", Ok(set_bitor(bitmap, rhs)), None)

\* set = set ^ rhs, set ^= rhs
SetBitXor ==
    /\ set_ty \in ExploredSetTypes
    /\ \E rhs \in RhsSets(set_ty, overflow_checks) :
            SetStep("bitxor", Ok(set_bitxor(bitmap, rhs)), None)

\* set = set - rhs, set -= rhs
SetSub ==
    /\ set_ty \in ExploredSetTypes
    /\ \E rhs \in RhsSets(set_ty, overflow_checks) :
            SetStep("sub", Ok(set_sub(set_ty, bitmap, rhs)), None)

\* set.next()
SetNext ==
    /\ set_ty \in ExploredSetTypes
    /\ LET r == next(set_ty, bitmap, overflow_checks)
           index == next_index(set_ty, bitmap)
       IN  SetCall("next", <<>>, r, r.ret,
                   IF index = None THEN {} ELSE {index[1]})

\* set.next_back()
SetNextBack ==
    /\ set_ty \in ExploredSetTypes
    /\ LET r == next_back(set_ty, bitmap, overflow_checks)
           index == next_back_index(set_ty, bitmap)
       IN  SetCall("next_back", <<>>, r, r.ret,
                   IF index = None THEN {} ELSE {index[1]})

NextSet ==
    \/ SetNone
    \/ SetAll
    \/ SetOnly
    \/ SetNew
    \/ SetFiniteNth
    \/ SetContains
    \/ SetInclude
    \/ SetExclude
    \/ SetContainsCompress
    \/ SetIncludeCompress
    \/ SetExcludeCompress
    \/ SetBitAnd
    \/ SetBitOr
    \/ SetBitXor
    \/ SetSub
    \/ SetNext
    \/ SetNextBack

SpecSet == InitSet /\ [][NextSet]_vars

----------------------------------------------------------------------------
(* The operations on one Compress<T> *)

\* the types Compress is used on: those impl_concrete_finite! is invoked for
\* (by the crate, and by the derive for a type without parameters)
CompressTypes ==
    {<<"()", 0>>, <<"bool", 0>>, <<"u8", 0>>, <<"u16", 0>>,
     <<"Color", 0>>, <<"Tile", 0>>, <<"Marker", 0>>, <<"General", 0>>,
     <<"Specific", 0>>, <<"Unit", 0>>, <<"ColorTriple", 0>>, <<"Options", 0>>,
     <<"MyType", 0>>}
    \cup UNION {{<<"Pow2Minus1", k>>, <<"Pow2", k>>, <<"Pow2Plus1", k>>} :
                    k \in 1..MaxCountExp}

CmpT == Desc(cmp_ty)

\* the indices handed to Compress::nth: both ends of 0..COUNT + MaxExtra
CmpIndices(t) ==
    {i \in (0..MaxEdge) \cup ((COUNT(t) - 1 - MaxEdge)..(COUNT(t) + MaxExtra)) :
        i >= 0}

\* the values handed to Compress::new: those at both ends of the index range
CmpValues(t) == {nth(t, i)[1] : i \in {j \in CmpIndices(t) : j < COUNT(t)}}

\* the indices and the values of the types, evaluated once
T_CmpIndices == [tr \in CompressTypes |-> CmpIndices(Desc(tr))]
T_CmpValues == [tr \in CompressTypes |-> CmpValues(Desc(tr))]

InitCompress ==
    /\ FinIdle
    /\ UintIdle
    /\ SetIdle
    /\ MapIdle
    /\ unchecked = {}
    /\ cmp_ty \in CompressTypes
    /\ cmp_op = "init"
    /\ cmp_arg = <<>>
    /\ compressed = None
    /\ cmp_ret = <<>>

\* c = Compress::new(value), c = compress(value)
CompressNew ==
    /\ cmp_op = "init"
    /\ \E value \in T_CmpValues[cmp_ty] :
        /\ cmp_arg' = <<"value", value>>
        /\ compressed' = Some(compress(CmpT, value))
    /\ cmp_op' = "new"
    /\ unchecked' = {}
    /\ UNCHANGED <<cmp_ty, cmp_ret, fin_vars, uint_vars, set_vars, map_vars>>

\* c = <Compress<T> as Finite>::nth(index), which may be None
CompressNth ==
    /\ cmp_op = "init"
    /\ \E index \in T_CmpIndices[cmp_ty] :
        /\ cmp_arg' = <<"index", index>>
        /\ compressed' = compress_nth(CmpT, index)
    /\ cmp_op' = "nth"
    /\ unchecked' = {}
    /\ UNCHANGED <<cmp_ty, cmp_ret, fin_vars, uint_vars, set_vars, map_vars>>

\* c.expand(): unwrap_unchecked of a None is undefined, any value may come
Expand ==
    /\ cmp_op \in {"new", "nth"}
    /\ compressed # None
    /\ LET found == expand(CmpT, compressed[1])
       IN  IF found # None
           THEN cmp_ret' = <<found[1]>>
           ELSE \E v \in T_CmpValues[cmp_ty] : cmp_ret' = <<v>>
    /\ cmp_op' = "expand"
    /\ unchecked' = {expand_index(compressed[1])}
    /\ UNCHANGED <<cmp_ty, cmp_arg, compressed, fin_vars, uint_vars, set_vars,
                   map_vars>>

\* <Compress<T> as Finite>::index_of(c)
CompressIndexOf ==
    /\ cmp_op \in {"new", "nth"}
    /\ compressed # None
    /\ cmp_ret' = <<compress_index_of(compressed[1])>>
    /\ cmp_op' = "index_of"
    /\ unchecked' = {}
    /\ UNCHANGED <<cmp_ty, cmp_arg, compressed, fin_vars, uint_vars, set_vars,
                   map_vars>>

NextCompress == CompressNew \/ CompressNth \/ Expand \/ CompressIndexOf

SpecCompress == InitCompress /\ [][NextCompress]_vars

----------------------------------------------------------------------------
(* The operations on one ArrayMap<K, V> *)

\* the key types of the maps
MapTypes == {<<"()", 0>>, <<"bool", 0>>, <<"Color", 0>>, <<"MyType", 0>>}

\* the values of the maps
MapValues(tr) == IF Dense(tr) THEN 0..MaxValue ELSE 0..1

\* the closures handed to new: every function, or for the larger key types
\* the constant ones and the parity of the index
MapClosures(tr) ==
    IF Dense(tr)
    THEN [T_Values[tr] -> MapValues(tr)]
    ELSE {[k \in T_Values[tr] |-> x] : x \in MapValues(tr)}
            \cup {[k \in T_Values[tr] |-> T_index_of[tr][k] % 2]}

\* the arrays handed to from
MapArrays(tr) ==
    IF Dense(tr)
    THEN [1..T_COUNT[tr] -> MapValues(tr)]
    ELSE {[i \in 1..T_COUNT[tr] |-> x] : x \in MapValues(tr)}
            \cup {[i \in 1..T_COUNT[tr] |-> i % 2]}

\* the operations after which the map is built
Built ==
    {"new", "default", "from", "index", "index_mut", "index compress",
     "index_mut compress", "map_with_key", "map"}

\* the closures handed to map_with_key: of the key only, of the value only,
\* of both, of neither
MapKeyClosures(tr) ==
    {[kv \in T_Values[tr] \X MapValues(tr) |->
            (a * T_index_of[tr][kv[1]] + b * kv[2] + c) % (MaxValue + 1)] :
        a \in 0..1, b \in 0..1, c \in MapValues(tr)}

\* the closures handed to map: every function of the value, or for the
\* larger key types the value plus a constant
MapValueClosures(tr) ==
    IF Dense(tr)
    THEN [MapValues(tr) -> 0..MaxValue]
    ELSE {[v \in MapValues(tr) |-> (v + c) % (MaxValue + 1)] :
                c \in MapValues(tr)}

InitMap ==
    /\ FinIdle
    /\ UintIdle
    /\ SetIdle
    /\ CmpIdle
    /\ unchecked = {}
    /\ map_ty \in MapTypes
    /\ map_op = "init"
    /\ map_f = <<>>
    /\ map_calls = <<>>
    /\ map_array = <<>>
    /\ map_key = <<>>
    /\ map_ret = <<>>
    /\ map_written = <<>>
    /\ map_out = <<>>

\* ArrayMap::new(f) is called
MapNew ==
    /\ map_op = "init"
    /\ map_op' = "new call"
    /\ map_f' \in MapClosures(map_ty)
    /\ unchecked' = {}
    /\ map_out' = <<>>
    /\ UNCHANGED <<map_ty, map_calls, map_array, map_key, map_ret, map_written,
                   fin_vars, uint_vars, set_vars, cmp_vars>>

\* array_init calls the closure of ArrayMap::new for the next element
MapNewCall ==
    /\ map_op = "new call"
    /\ Len(map_array) < T_COUNT[map_ty]
    /\ LET k == array_init_next(map_array)
           r == new_closure(map_ty, map_f, k)
       IN  /\ map_calls' = Append(map_calls, r.key)
           /\ map_array' = Append(map_array, r.value)
           /\ unchecked' = {k}
    /\ map_out' = <<>>
    /\ UNCHANGED <<map_ty, map_op, map_f, map_key, map_ret, map_written,
                   fin_vars, uint_vars, set_vars, cmp_vars>>

\* ArrayMap::new(f) returns
MapNewReturn ==
    /\ map_op = "new call"
    /\ Len(map_array) = T_COUNT[map_ty]
    /\ map_op' = "new"
    /\ map_written' = map_f
    /\ unchecked' = {}
    /\ map_out' = <<>>
    /\ UNCHANGED <<map_ty, map_f, map_calls, map_array, map_key, map_ret,
                   fin_vars, uint_vars, set_vars, cmp_vars>>

\* map = ArrayMap::map_default()
MapDefault ==
    /\ map_op = "init"
    /\ map_op' = "default"
    /\ map_array' = map_default(map_ty)
    /\ map_written' = [k \in T_Values[map_ty] |-> 0]
    /\ unchecked' = {}
    /\ map_out' = <<>>
    /\ UNCHANGED <<map_ty, map_f, map_calls, map_key, map_ret,
                   fin_vars, uint_vars, set_vars, cmp_vars>>

\* map = ArrayMap::map_from(array)
MapFrom ==
    /\ map_op = "init"
    /\ map_op' = "from"
    /\ \E array \in MapArrays(map_ty) :
        /\ map_array' = map_from(array)
        /\ map_written' =
                [k \in T_Values[map_ty] |-> array[T_index_of[map_ty][k] + 1]]
    /\ unchecked' = {}
    /\ map_out' = <<>>
    /\ UNCHANGED <<map_ty, map_f, map_calls, map_key, map_ret,
                   fin_vars, uint_vars, set_vars, cmp_vars>>

\* map[key]
MapIndex ==
    /\ map_op \in Built
    /\ map_op' = "index"
    /\ \E key \in T_Values[map_ty] :
        /\ map_key' = <<key>>
        /\ map_ret' = <<map_index(map_ty, map_array, key)>>
        /\ unchecked' = {index_slot(map_ty, key)}
    /\ map_f' = <<>>
    /\ map_calls' = <<>>
    /\ map_out' = <<>>
    /\ UNCHANGED <<map_ty, map_array, map_written,
                   fin_vars, uint_vars, set_vars, cmp_vars>>

\* map[key] = x
MapIndexMut ==
    /\ map_op \in Built
    /\ map_op' = "index_mut"
    /\ \E key \in T_Values[map_ty], x \in MapValues(map_ty) :
        /\ map_key' = <<key>>
        /\ map_array' = map_index_mut(map_ty, map_array, key, x)
        /\ map_written' = [map_written EXCEPT ![key] = x]
        /\ unchecked' = {index_slot(map_ty, key)}
    /\ map_f' = <<>>
    /\ map_calls' = <<>>
    /\ map_ret' = <<>>
    /\ map_out' = <<>>
    /\ UNCHANGED <<map_ty, fin_vars, uint_vars, set_vars, cmp_vars>>

\* map[compress(key)]
MapIndexCompress ==
    /\ map_op \in Built
    /\ map_op' = "index compress"
    /\ \E key \in T_Values[map_ty] :
        LET c == T_compress[map_ty][key]
        IN  /\ map_key' = <<key>>
            /\ map_ret' = <<map_index_compress(map_array, c)>>
            /\ unchecked' = {index_slot_compress(c)}
    /\ map_f' = <<>>
    /\ map_calls' = <<>>
    /\ map_out' = <<>>
    /\ UNCHANGED <<map_ty, map_array, map_written,
                   fin_vars, uint_vars, set_vars, cmp_vars>>

\* map[compress(key)] = x
MapIndexMutCompress ==
    /\ map_op \in Built
    /\ map_op' = "index_mut compress"
    /\ \E key \in T_Values[map_ty], x \in MapValues(map_ty) :
        LET c == T_compress[map_ty][key]
        IN  /\ map_key' = <<key>>
            /\ map_array' = map_index_mut_compress(map_array, c, x)
            /\ map_written' = [map_written EXCEPT ![key] = x]
            /\ unchecked' = {index_slot_compress(c)}
    /\ map_f' = <<>>
    /\ map_calls' = <<>>
    /\ map_ret' = <<>>
    /\ map_out' = <<>>
    /\ UNCHANGED <<map_ty, fin_vars, uint_vars, set_vars, cmp_vars>>

\* map.map_with_key(f) is called
MapWithKey ==
    /\ map_op \in Built
    /\ map_op' = "map_with_key call"
    /\ map_f' \in MapKeyClosures(map_ty)
    /\ map_calls' = <<>>
    /\ map_out' = <<>>
    /\ map_key' = <<>>
    /\ map_ret' = <<>>
    /\ unchecked' = {}
    /\ UNCHANGED <<map_ty, map_array, map_written,
                   fin_vars, uint_vars, set_vars, cmp_vars>>

\* map.map(f) is called; it calls map_with_key(|_, v| f(v))
MapMap ==
    /\ map_op \in Built
    /\ map_op' = "map call"
    /\ map_f' \in MapValueClosures(map_ty)
    /\ map_calls' = <<>>
    /\ map_out' = <<>>
    /\ map_key' = <<>>
    /\ map_ret' = <<>>
    /\ unchecked' = {}
    /\ UNCHANGED <<map_ty, map_array, map_written,
                   fin_vars, uint_vars, set_vars, cmp_vars>>

\* array_init calls the closure of map_with_key for the next element
MapWithKeyCall ==
    /\ map_op \in {"map_with_key call", "map call"}
    /\ Len(map_out) < T_COUNT[map_ty]
    /\ LET k == array_init_next(map_out)
           f == IF map_op = "map call"
                THEN map_closure(map_ty, map_f)
                ELSE map_f
           r == map_with_key_closure(map_ty, map_array, f, k)
       IN  /\ map_calls' = Append(map_calls, <<r.key, r.old>>)
           /\ map_out' = Append(map_out, r.value)
           /\ unchecked' = {k}
    /\ UNCHANGED <<map_ty, map_op, map_f, map_array, map_key, map_ret,
                   map_written, fin_vars, uint_vars, set_vars, cmp_vars>>

\* map_with_key, and map with it, returns the map built
MapWithKeyReturn ==
    /\ map_op \in {"map_with_key call", "map call"}
    /\ Len(map_out) = T_COUNT[map_ty]
    /\ map_op' = IF map_op = "map call" THEN "map" ELSE "map_with_key"
    /\ unchecked' = {}
    /\ UNCHANGED <<map_ty, map_f, map_calls, map_array, map_key, map_ret,
                   map_written, map_out,
                   fin_vars, uint_vars, set_vars, cmp_vars>>

NextMap ==
    \/ MapNew
    \/ MapNewCall
    \/ MapNewReturn
    \/ MapDefault
    \/ MapFrom
    \/ MapIndex
    \/ MapIndexMut
    \/ MapIndexCompress
    \/ MapIndexMutCompress
    \/ MapWithKey
    \/ MapMap
    \/ MapWithKeyCall
    \/ MapWithKeyReturn

SpecMap == InitMap /\ [][NextMap]_vars

----------------------------------------------------------------------------
(* A program that uses one of a set, a compressed value and a map *)

InitAny == InitSet \/ InitCompress \/ InitMap

NextAny == NextSet \/ NextCompress \/ NextMap

SpecAny == InitAny /\ [][NextAny]_vars

----------------------------------------------------------------------------
(* Properties of the Finite bijection *)

\* the type of the call in the current state
FinT == Desc(fin_ty)

RECURSIVE RefProduct(_), RefSum(_, _), RefProductIndex(_, _)

\* the product of the COUNTs of a list of types
RefProduct(tys) ==
    IF tys = <<>> THEN 1 ELSE COUNT(Head(tys)) * RefProduct(Tail(tys))

\* where the sub-range of variant k starts: the sizes of the variants before it
RefSum(variants, k) ==
    IF k <= 1 THEN 0
    ELSE RefSum(variants, k - 1) + RefProduct(variants[k - 1].args)

\* the mixed-radix index of a field list: each field's index weighted by the
\* product of the COUNTs of the fields after it
RefProductIndex(tys, fields) ==
    IF tys = <<>> THEN 0
    ELSE index_of(Head(tys), Head(fields)) * RefProduct(Tail(tys))
            + RefProductIndex(Tail(tys), Tail(fields))

\* C1: index_of and nth are mutually inverse: index_of(nth(i)) = i for every
\* i < COUNT, and nth(index_of(v)) = Some(v) for every value v.
C1_Inverse ==
    /\ (fin_op = "nth" /\ fin_index < COUNT(FinT)) =>
            /\ fin_value # None
            /\ index_of(FinT, fin_value[1]) = fin_index
    /\ fin_op = "index_of" => nth(FinT, fin_index) = Some(fin_value)

\* nth(24) of Tile is the last Cross value
C1_Witness ==
    /\ fin_op = "nth"
    /\ fin_ty = <<"Tile", 0>>
    /\ fin_index = 24
    /\ fin_value = Some(<<4, <<<<3, <<>>>>, <<3, <<>>>>, TRUE>>>>)

\* C2: nth(i) is Some exactly when i < COUNT (None, with no panic, from COUNT
\* on), the value it returns is a value of the type, and index_of(v) < COUNT.
C2_NthSomeIffBelowCount ==
    /\ fin_op = "nth" =>
            /\ (fin_value # None) <=> (fin_index < COUNT(FinT))
            /\ fin_value # None => fin_value[1] \in Values(FinT)
    /\ fin_op = "index_of" => fin_index \in 0..(COUNT(FinT) - 1)

\* nth(COUNT) of Tile is None
C2_Witness ==
    /\ fin_op = "nth"
    /\ fin_ty = <<"Tile", 0>>
    /\ fin_index = COUNT(FinT)
    /\ fin_value = None

\* C3: the index mapping is an order homomorphism: index_of(a) < index_of(b)
\* iff a < b, and nth(i) < nth(i + 1) for every i in [0, COUNT - 1).
C3_OrderHomomorphism ==
    /\ (fin_op = "nth" /\ fin_index + 1 < COUNT(FinT)) =>
            /\ fin_value # None
            /\ nth(FinT, fin_index + 1) # None
            /\ Lt(FinT, fin_value[1], nth(FinT, fin_index + 1)[1])
    /\ fin_op = "index_of" =>
            \A b \in InputValues(FinT) :
                (fin_index < index_of(FinT, b)) <=> Lt(FinT, fin_value, b)

\* Left(Some(Blue)) of Marker, the last value before the Right values
C3_Witness ==
    /\ fin_op = "index_of"
    /\ fin_ty = <<"Marker", 0>>
    /\ fin_value = <<1, <<Some(<<3, <<>>>>)>>>>
    /\ fin_index = 3

\* C4: in a derived enum each variant owns the sub-range that starts at the sum
\* of the sizes of the variants before it and whose size is the product of its
\* field COUNTs; COUNT is the sum of the sizes, index_of is the start of the
\* variant plus the product index of the fields, and nth decodes the index
\* minus the start in the variant whose sub-range holds the index. Tile has
\* COUNT 25, MyType COUNT 7, index_of(B(false)) = 1, nth(4) = C(false, true).
C4_EnumLayout ==
    /\ FinT.kind = "enum" =>
        LET variants == FinT.args
        IN  /\ COUNT(FinT) = RefSum(variants, Len(variants) + 1)
            /\ fin_op = "index_of" =>
                    fin_index = RefSum(variants, fin_value[1])
                        + RefProductIndex(variants[fin_value[1]].args, fin_value[2])
            /\ (fin_op = "nth" /\ fin_index < COUNT(FinT)) =>
                    /\ fin_value # None
                    /\ LET k == fin_value[1][1]
                       IN  /\ k \in 1..Len(variants)
                           /\ RefSum(variants, k) <= fin_index
                           /\ fin_index < RefSum(variants, k + 1)
                           /\ fin_value[1][2] \in ProductValues(variants[k].args)
                           /\ RefProductIndex(variants[k].args, fin_value[1][2])
                                = fin_index - RefSum(variants, k)
    /\ fin_ty = <<"Tile", 0>> => COUNT(FinT) = 25
    /\ fin_ty = <<"MyType", 0>> =>
            /\ COUNT(FinT) = 7
            /\ (fin_op = "index_of" /\ fin_value = <<2, <<FALSE>>>>) => fin_index = 1
            /\ (fin_op = "nth" /\ fin_index = 4) =>
                    fin_value = Some(<<3, <<FALSE, TRUE>>>>)

\* MyType::nth(4) is C(false, true)
C4_Witness ==
    /\ fin_op = "nth"
    /\ fin_ty = <<"MyType", 0>>
    /\ fin_index = 4
    /\ fin_value = Some(<<3, <<FALSE, TRUE>>>>)

\* C5: products are row-major mixed radix, the first component slowest. A pair
\* has COUNT = A::COUNT * B::COUNT, index_of((a, b)) = index_of(a) * B::COUNT +
\* index_of(b) and nth(i) = (A::nth(i / B::COUNT), B::nth(i % B::COUNT)); a
\* derived struct has the product of its field COUNTs as COUNT, the mixed-radix
\* index of its fields as index, and nth decodes field j as
\* (i / product of the later COUNTs) % COUNT_j.
C5_ProductRadix ==
    /\ FinT.kind = "pair" =>
        LET A == FinT.args[1]
            B == FinT.args[2]
        IN  /\ COUNT(FinT) = COUNT(A) * COUNT(B)
            /\ fin_op = "index_of" =>
                    fin_index = index_of(A, fin_value[1]) * COUNT(B)
                                    + index_of(B, fin_value[2])
            /\ (fin_op = "nth" /\ fin_index < COUNT(FinT)) =>
                    /\ nth(A, fin_index \div COUNT(B)) # None
                    /\ nth(B, fin_index % COUNT(B)) # None
                    /\ fin_value = Some(<<nth(A, fin_index \div COUNT(B))[1],
                                          nth(B, fin_index % COUNT(B))[1]>>)
    /\ FinT.kind = "struct" =>
        LET tys == FinT.args
        IN  /\ COUNT(FinT) = RefProduct(tys)
            /\ fin_op = "index_of" => fin_index = RefProductIndex(tys, fin_value)
            /\ (fin_op = "nth" /\ fin_index < COUNT(FinT)) =>
                    /\ fin_value # None
                    /\ Len(fin_value[1]) = Len(tys)
                    /\ \A j \in 1..Len(tys) :
                            Some(fin_value[1][j]) =
                                nth(tys[j],
                                    (fin_index
                                        \div RefProduct(SubSeq(tys, j + 1, Len(tys))))
                                    % COUNT(tys[j]))

\* index_of((true, Blue)) = 1 * 3 + 2
C5_Witness ==
    /\ fin_op = "index_of"
    /\ fin_ty = <<"(bool, Color)", 0>>
    /\ fin_value = <<TRUE, <<3, <<>>>>>>
    /\ fin_index = 5

\* C6: Option<T> has COUNT = 1 + T::COUNT, index_of(None) = 0,
\* index_of(Some(v)) = 1 + T::index_of(v), nth(0) = Some(None) and
\* nth(i) = Some(T::nth(i - 1)) for 1 <= i < COUNT, so None precedes every
\* Some; Option<Color> has COUNT 4 with indices 0 and 1, 2, 3.
C6_Option ==
    /\ FinT.kind = "option" =>
        LET T == FinT.args[1]
        IN  /\ COUNT(FinT) = 1 + COUNT(T)
            /\ fin_op = "index_of" =>
                    /\ fin_value = None => fin_index = 0
                    /\ fin_value # None =>
                            /\ fin_index = 1 + index_of(T, fin_value[1])
                            /\ Lt(FinT, None, fin_value)
                            /\ index_of(FinT, None) < fin_index
            /\ fin_op = "nth" =>
                    /\ fin_index = 0 => fin_value = Some(None)
                    /\ (1 <= fin_index /\ fin_index < COUNT(FinT)) =>
                            /\ nth(T, fin_index - 1) # None
                            /\ fin_value = Some(nth(T, fin_index - 1))
    /\ fin_ty = <<"Option<Color>", 0>> =>
            /\ COUNT(FinT) = 4
            /\ fin_op = "index_of" =>
                    \A k \in 1..3 : fin_value = Some(<<k, <<>>>>) => fin_index = k

\* index_of(Some(Blue)) = 3
C6_Witness ==
    /\ fin_op = "index_of"
    /\ fin_ty = <<"Option<Color>", 0>>
    /\ fin_value = Some(<<3, <<>>>>)
    /\ fin_index = 3


----------------------------------------------------------------------------
(* Properties of the bitmap set and of the unsigned integers *)

\* the bitmap whose low n bits are one and whose other bits are zero
LowBits(n) == 0..(n - 1)

\* C7: BitmapSet::all() returns the bitmap whose low COUNT bits are one and
\* whose other bits are zero, for every COUNT in 1..=128, the full widths 8,
\* 16, 32, 64 and 128 included: it does not panic, all().size() == COUNT and
\* every index below COUNT is contained.
C7_AllIsLowCountBits ==
    set_op = "all" =>
        /\ ~panicked
        /\ bitmap = LowBits(T_COUNT[set_ty])
        /\ size(bitmap) = T_COUNT[set_ty]

\* C8: every bit of a reachable set at a position >= COUNT is zero.
C8_HighBitsZero == \A b \in bitmap : b < T_COUNT[set_ty]

\* C8 witness: Color has COUNT 3 in a u8; all() less only(Green) leaves Red
\* and Blue, and the five unused bits stay zero.
C8_Witness ==
    /\ set_ty = <<"Color", 0>>
    /\ Bitmap[set_ty] = 8
    /\ set_op = "sub"
    /\ ~panicked
    /\ bitmap = {0, 2}

RECURSIVE CeilLog2(_)
\* the least k with 2^k >= n, for n >= 1
CeilLog2(n) == IF n <= 1 THEN 0 ELSE 1 + CeilLog2((n + 1) \div 2)

\* C9: uint::log2(n) is the ceiling of the base-2 logarithm of n for every
\* n >= 1; in particular it is zero for n = 1.
C9_Log2IsCeiling ==
    (uint_op = "log2" /\ uint_n >= 1) => uint_ret = CeilLog2(uint_n)

\* the widths of the concrete types of the registry
Ladder == {0, 8, 16, 32, 64, 128}

\* C10: for every n in 0..=128 the registry yields the smallest width of the
\* ladder 0, 8, 16, 32, 64, 128 that is >= n; the zero-bit type is chosen
\* for n = 0 only.
C10_SmallestLadderWidth ==
    uint_op = "Uint" =>
        /\ uint_ret \in Ladder
        /\ uint_ret >= uint_n
        /\ \A w \in Ladder : w >= uint_n => uint_ret <= w
        /\ (uint_ret = 0) <=> (uint_n = 0)

\* C10 witness: 65 bits do not fit a u64 and resolve to u128.
C10_Witness == uint_op = "Uint" /\ uint_n = 65 /\ uint_ret = 128


----------------------------------------------------------------------------
(* Properties of the compressed value and of the array map *)

\* the widths an index type can have
IndexLadder == {0, 8, 16, 32, 64}

\* n < 2^w, for the n below 2^31 of this model
Below2Pow(n, w) == w >= 31 \/ n < 2 ^ w

\* the values of the enum MyType
MyType_A == <<1, <<>>>>
MyType_B(a) == <<2, <<a>>>>
MyType_C(a, b) == <<3, <<a, b>>>>

\* C11: the index type of Compress<T> is the narrowest of the widths 0, 8, 16,
\* 32, 64 that holds COUNT - 1: COUNT - 1 < 2^w, no narrower width does, COUNT
\* = 1 gives the zero-bit type; and every index below COUNT survives
\* from_usize_unchecked followed by to_usize.
C11_NarrowestIndex ==
    cmp_op # "idle" =>
        LET n == COUNT(CmpT)
            w == Index(CmpT)
        IN  /\ n >= 1
            /\ w \in IndexLadder
            /\ Below2Pow(n - 1, w)
            /\ \A v \in IndexLadder : v < w => ~Below2Pow(n - 1, v)
            /\ (n = 1) => (w = 0)
            /\ \A i \in T_CmpIndices[cmp_ty] :
                    i < n => to_usize(from_usize_unchecked(w, i)) = i
            /\ (cmp_op = "nth" /\ compressed # None) =>
                    to_usize(compressed[1]) = cmp_arg[2]

\* C11 witness: MyType has 7 values and a u8 index; Compress::nth(6) stores 6.
C11_Witness ==
    /\ cmp_ty = <<"MyType", 0>>
    /\ Index(CmpT) = 8
    /\ cmp_op = "nth"
    /\ cmp_arg = <<"index", 6>>
    /\ compressed = Some({1, 2})

\* C12: compress(v).expand() == v for every value v.
C12_ExpandCompress ==
    (cmp_op = "expand" /\ cmp_arg[1] = "value") => cmp_ret = <<cmp_arg[2]>>

\* C12 witness: MyType::B(false) is compressed to the index 1 and expanded.
C12_Witness ==
    /\ cmp_ty = <<"MyType", 0>>
    /\ cmp_op = "expand"
    /\ cmp_arg = <<"value", MyType_B(FALSE)>>
    /\ compressed = Some({0})
    /\ cmp_ret = <<MyType_B(FALSE)>>

\* the COUNT of the type the running program decodes indices of
UncheckedCOUNT ==
    CASE set_op # "idle" -> T_COUNT[set_ty]
      [] cmp_op # "idle" -> COUNT(CmpT)
      [] map_op # "idle" -> T_COUNT[map_ty]

\* C13: every index handed to an unchecked decode or an unchecked array
\* access is below COUNT: the index a Compress<T> stores, the slot an ArrayMap
\* is indexed at by a key or a compressed key, and the bit positions decoded
\* by next, next_back and new of a BitmapSet.
C13_UncheckedBelowCount ==
    /\ \A i \in unchecked : i < UncheckedCOUNT
    /\ compressed # None => compress_index_of(compressed[1]) < COUNT(CmpT)

\* C13 witness: next_back decodes the top bit of the u8 behind a set of
\* Option<MyType>, the position COUNT - 1 = 7.
C13_Witness ==
    /\ set_ty = <<"Option<MyType>", 0>>
    /\ set_op = "next_back"
    /\ unchecked = {7}
    /\ set_ret = Some(Some(MyType_C(TRUE, TRUE)))

\* C14: ArrayMap::new(f) calls f once for every key, in the order nth(0),
\* nth(1), ..., nth(COUNT - 1), and stores what f returns for the key.
C14_NewCallsInOrder ==
    map_op \in {"new call", "new"} =>
        /\ Len(map_calls) = Len(map_array)
        /\ Len(map_calls) <= T_COUNT[map_ty]
        /\ \A i \in 1..Len(map_calls) :
            /\ map_calls[i] = T_nth[map_ty][i - 1][1]
            /\ map_array[i] = map_f[map_calls[i]]
        /\ map_op = "new" =>
            /\ Len(map_calls) = T_COUNT[map_ty]
            /\ \A k \in T_Values[map_ty] :
                    Cardinality({i \in 1..Len(map_calls) : map_calls[i] = k}) = 1

\* C14 witness: new has returned after the seven calls for MyType, the first
\* on A and the last on C(true, true).
C14_Witness ==
    /\ map_ty = <<"MyType", 0>>
    /\ map_op = "new"
    /\ Len(map_calls) = 7
    /\ map_calls[1] = MyType_A
    /\ map_calls[7] = MyType_C(TRUE, TRUE)

\* C15: reading map[k] returns the last value written to k, or the initial
\* value of k (f(k), the default, array[index_of(k)]) if none was; a write
\* changes no other key, and every key is readable.
C15_ReadsLastWrite ==
    map_op \in Built =>
        /\ Len(map_array) = T_COUNT[map_ty]
        /\ DOMAIN map_written = T_Values[map_ty]
        /\ \A k \in T_Values[map_ty] :
            /\ index_slot(map_ty, k) < Len(map_array)
            /\ map_index(map_ty, map_array, k) = map_written[k]
        /\ map_op \in {"index", "index compress"} =>
                map_ret = <<map_written[map_key[1]]>>

\* C15 witness: after default() and the writes map[B(true)] = 1 and
\* map[C(true, true)] = 1, map[A] reads 0.
C15_Witness ==
    /\ map_ty = <<"MyType", 0>>
    /\ map_op = "index"
    /\ map_key = <<MyType_A>>
    /\ map_ret = <<0>>
    /\ map_array = <<0, 0, 1, 0, 0, 0, 1>>

\* C16: Compress<T> has the COUNT of T and Compress::index_of(compress(v)) =
\* T::index_of(v); a map read or written through compress(k) touches the slot
\* of k, and contains, include and exclude of a set with compress(v) return
\* and leave what they do with v.
C16_CompressedKeyEquivalent ==
    /\ cmp_op # "idle" =>
        /\ compress_COUNT(CmpT) = COUNT(CmpT)
        /\ (cmp_op = "index_of" /\ cmp_arg[1] = "value") =>
                cmp_ret = <<index_of(CmpT, cmp_arg[2])>>
    /\ (set_op # "idle" /\ set_ty \in ExploredSetTypes) =>
        \A v \in T_Values[set_ty] :
            LET c == T_compress[set_ty][v]
            IN  /\ compress_index_of(c) = T_index_of[set_ty][v]
                /\ contains_compress(set_ty, bitmap, c, overflow_checks)
                        = contains(set_ty, bitmap, v, overflow_checks)
                /\ include_compress(set_ty, bitmap, c, overflow_checks)
                        = include(set_ty, bitmap, v, overflow_checks)
                /\ exclude_compress(set_ty, bitmap, c, overflow_checks)
                        = exclude(set_ty, bitmap, v, overflow_checks)
    /\ map_op \in Built =>
        \A k \in T_Values[map_ty] :
            LET c == T_compress[map_ty][k]
            IN  /\ index_slot_compress(c) = index_slot(map_ty, k)
                /\ map_index_compress(map_array, c)
                        = map_index(map_ty, map_array, k)
                /\ \A x \in MapValues(map_ty) :
                        map_index_mut_compress(map_array, c, x)
                            = map_index_mut(map_ty, map_array, k, x)

\* C16 witness: include(compress(B(false))) on the empty set of MyType sets
\* bit 1, the index of B(false).
C16_Witness ==
    /\ set_ty = <<"MyType", 0>>
    /\ set_op = "include compress"
    /\ set_arg = <<MyType_B(FALSE)>>
    /\ bitmap = {1}


----------------------------------------------------------------------------
(* Properties of the operations of the bitmap set *)

\* the values contains is true of in the set with the bitmap bits
Members(bits) ==
    {v \in T_Values[set_ty] :
        contains(set_ty, bits, v, overflow_checks) = Ok(TRUE)}

\* the values whose index is a one bit of bits
Held(bits) == {v \in T_Values[set_ty] : T_index_of[set_ty][v] \in bits}

\* in every set contains is true of the values whose bit is one, size() is
\* their number and is_none() holds exactly when size() is 0
C17_State ==
    (set_op # "idle" /\ set_ty \in ExploredSetTypes) =>
        /\ Members(bitmap) = Held(bitmap)
        /\ size(bitmap) = Cardinality(Members(bitmap))
        /\ is_none(bitmap) <=> (size(bitmap) = 0)

\* what a step of none, include, exclude or contains does to the values held
C17_Step ==
    (set_ty \in ExploredSetTypes /\ ~panicked') =>
        /\ set_op' \in {"include", "include compress"} =>
            /\ Held(bitmap') = Held(bitmap) \cup {set_arg'[1]}
            /\ include(set_ty, bitmap', set_arg'[1], overflow_checks)
                    = Ok(bitmap')
        /\ set_op' \in {"exclude", "exclude compress"} =>
            /\ Held(bitmap') = Held(bitmap) \ {set_arg'[1]}
            /\ exclude(set_ty, bitmap', set_arg'[1], overflow_checks)
                    = Ok(bitmap')
        /\ set_op' = "none" => Held(bitmap') = {}
        /\ set_op' \in {"contains", "contains compress"} =>
            /\ set_ret' = Some(set_arg'[1] \in Held(bitmap))
            /\ bitmap' = bitmap

\* C17: an include of v makes contains(v) true and an exclude of v makes it
\* false, neither changes the membership of another value, both are
\* idempotent, none() contains nothing, contains returns the membership and
\* leaves the set alone; size() is the number of values contained and
\* is_none() holds exactly when size() is 0.
C17_IncludeExclude == []C17_State /\ [][C17_Step]_vars

\* C17 witness: after include of A, B(false) and C(true, false) the set of
\* MyType has size 3 and contains B(false).
C17_Witness ==
    /\ set_ty = <<"MyType", 0>>
    /\ set_op = "contains"
    /\ set_arg = <<MyType_B(FALSE)>>
    /\ set_ret = Some(TRUE)
    /\ Members(bitmap) = {MyType_A, MyType_B(FALSE), MyType_C(TRUE, FALSE)}
    /\ size(bitmap) = 3

\* C18: for the set A and every set B, (A & B) | (A ^ B) = A | B; A - B is
\* A & !B and contains the members of A that are not members of B; and
\* size(A | B) + size(A & B) = size(A) + size(B).
C18_SetAlgebra ==
    (set_op # "idle" /\ set_ty \in ExploredSetTypes) =>
        \A B \in RhsSets(set_ty, overflow_checks) :
            LET A == bitmap
            IN  /\ set_bitor(set_bitand(A, B), set_bitxor(A, B)) = set_bitor(A, B)
                /\ set_sub(set_ty, A, B) = set_bitand(A, not(Bitmap[set_ty], B))
                /\ Members(set_sub(set_ty, A, B)) = Members(A) \ Members(B)
                /\ size(set_bitor(A, B)) + size(set_bitand(A, B))
                        = size(A) + size(B)

\* C18 witness: all() of Option<Color> less a set leaves {None, Blue}.
C18_Witness ==
    /\ set_ty = <<"Option<Color>", 0>>
    /\ set_op = "sub"
    /\ bitmap = {0, 3}

RECURSIVE DrainNext(_, _)
\* the values the calls of next return until it returns None
DrainNext(tr, bits) ==
    LET r == next(tr, bits, overflow_checks)
    IN  IF r.panic \/ r.ret = None THEN <<>>
        ELSE <<r.ret[1]>> \o DrainNext(tr, r.bits)

RECURSIVE DrainNextBack(_, _)
\* the values the calls of next_back return until it returns None
DrainNextBack(tr, bits) ==
    LET r == next_back(tr, bits, overflow_checks)
    IN  IF r.panic \/ r.ret = None THEN <<>>
        ELSE <<r.ret[1]>> \o DrainNextBack(tr, r.bits)

\* the indices of the values of a sequence
IndicesOf(tr, seq) == [i \in 1..Len(seq) |-> T_index_of[tr][seq[i]]]

\* C19: next yields the members once each in strictly ascending index order,
\* size() of them, then None, and on None the set is empty and stays so;
\* next_back yields them in strictly descending order. {false, true} iterates
\* false, true and backwards true, false.
C19_IterationOrder ==
    (set_op # "idle" /\ set_ty \in ExploredSetTypes) =>
        LET up == IndicesOf(set_ty, DrainNext(set_ty, bitmap))
            down == IndicesOf(set_ty, DrainNextBack(set_ty, bitmap))
        IN  /\ Len(up) = size(bitmap)
            /\ Len(down) = size(bitmap)
            /\ {up[i] : i \in 1..Len(up)} = bitmap
            /\ {down[i] : i \in 1..Len(down)} = bitmap
            /\ \A i \in 1..(Len(up) - 1) : up[i] < up[i + 1]
            /\ \A i \in 1..(Len(down) - 1) : down[i] > down[i + 1]
            /\ (set_op \in {"next", "next_back"} /\ ~panicked) =>
                /\ set_ret = None =>
                    /\ bitmap = {}
                    /\ next(set_ty, bitmap, overflow_checks).ret = None
                    /\ next(set_ty, bitmap, overflow_checks).bits = {}
                /\ set_ret # None =>
                    /\ T_index_of[set_ty][set_ret[1]] \notin bitmap
                    /\ set_op = "next" =>
                        \A b \in bitmap : T_index_of[set_ty][set_ret[1]] < b
                    /\ set_op = "next_back" =>
                        \A b \in bitmap : T_index_of[set_ty][set_ret[1]] > b
            /\ set_ty = <<"bool", 0>> =>
                /\ DrainNext(set_ty, {0, 1}) = <<FALSE, TRUE>>
                /\ DrainNextBack(set_ty, {0, 1}) = <<TRUE, FALSE>>

\* C19 witness: the first next on {false, true} returns false and leaves
\* {true}.
C19_Witness ==
    /\ set_ty = <<"bool", 0>>
    /\ set_op = "next"
    /\ set_ret = Some(FALSE)
    /\ bitmap = {1}

\* the number whose one bits are at the positions bits, below 2^31
RECURSIVE BitPattern(_)
BitPattern(bits) ==
    IF bits = {} THEN 0
    ELSE LET b == CHOOSE x \in bits : TRUE
         IN  2 ^ b + BitPattern(bits \ {b})

\* what C20 says of the sets of a type of few values, whose bit patterns the
\* model's integers hold
C20_Explored ==
    (set_op # "idle" /\ set_ty \in ExploredSetTypes) =>
        /\ set_COUNT(set_ty) = 2 ^ T_COUNT[set_ty]
        /\ set_index_of(bitmap) = BitPattern(bitmap)
        /\ set_nth(set_ty, set_index_of(bitmap)) = Some(bitmap)
        /\ set_op = "nth" =>
            /\ (set_ret = None) <=> (set_arg[1] >= 2 ^ T_COUNT[set_ty])
            /\ set_ret # None =>
                /\ bitmap = set_ret[1]
                /\ set_index_of(set_ret[1]) = set_arg[1]
        /\ \A B \in RhsSets(set_ty, overflow_checks) :
            /\ set_eq(bitmap, B) <=> (BitPattern(bitmap) = BitPattern(B))
            /\ (set_cmp(bitmap, B) = "Less")
                    <=> (BitPattern(bitmap) < BitPattern(B))
            /\ (set_cmp(bitmap, B) = "Greater")
                    <=> (BitPattern(bitmap) > BitPattern(B))

\* C20: BitmapSet<T> is Finite with the raw bit pattern of a set for its
\* index: the usize index_of returns has the one bits of the bitmap, COUNT is
\* 2^(T::COUNT), index_of(nth(i)) = i below it and nth(i) is None from it on,
\* sets are equal iff their bit patterns are and ordered as their bit
\* patterns.
C20_IndexIsBitPattern ==
    /\ set_index_of_bits(bitmap) = bitmap
    /\ C20_Explored

----------------------------------------------------------------------------
(* Properties of map_with_key, of BitmapSet::new and of draining a set *)

\* what the closure given to map_with_key or map returns for the key k and
\* the value v
Applied(k, v) ==
    IF map_op \in {"map call", "map"} THEN map_f[v] ELSE map_f[<<k, v>>]

\* C21: map_with_key(f) and map(f) call f once for every key, in the order
\* nth(0), nth(1), ..., nth(COUNT - 1), with the key's value in the map;
\* the map returned has for every key k the value f(k, &old[k]) (f(&old[k])
\* for map), and the map it was called on holds what it held.
C21_MapWithKey ==
    map_op \in {"map_with_key call", "map call", "map_with_key", "map"} =>
        /\ Len(map_calls) = Len(map_out)
        /\ Len(map_calls) <= T_COUNT[map_ty]
        /\ Len(map_array) = T_COUNT[map_ty]
        /\ \A k \in T_Values[map_ty] :
                map_index(map_ty, map_array, k) = map_written[k]
        /\ \A i \in 1..Len(map_calls) :
            /\ map_calls[i][1] = T_nth[map_ty][i - 1][1]
            /\ map_calls[i][2] = map_written[map_calls[i][1]]
            /\ map_out[i] = Applied(map_calls[i][1], map_calls[i][2])
        /\ map_op \in {"map_with_key", "map"} =>
            /\ Len(map_out) = T_COUNT[map_ty]
            /\ \A k \in T_Values[map_ty] :
                /\ map_index(map_ty, map_out, k) = Applied(k, map_written[k])
                /\ Cardinality({i \in 1..Len(map_calls) :
                                    map_calls[i][1] = k}) = 1

\* C21 witness: the map over MyType with 1 at B(false) and at C(true, true)
\* and 0 elsewhere, mapped by f(k, v) = (index_of(k) + v) % 3.
C21_Witness ==
    /\ map_ty = <<"MyType", 0>>
    /\ map_op = "map_with_key"
    /\ map_array = <<0, 1, 0, 0, 0, 0, 1>>
    /\ map_out = <<0, 2, 2, 0, 1, 2, 1>>
    /\ map_calls[2] = <<MyType_B(FALSE), 1>>
    /\ map_calls[7] = <<MyType_C(TRUE, TRUE), 1>>

\* what C22 says of new(f) alone: f is called once with every value, in the
\* order nth(0), nth(1), ..., nth(COUNT - 1), and the set holds exactly the
\* values f is true of; new(|_| false) is none()
C22_NewMembers ==
    set_op = "new" =>
        LET f == set_arg[1]
            calls == set_arg[2]
        IN  /\ ~panicked
            /\ Len(calls) = T_COUNT[set_ty]
            /\ \A i \in 1..Len(calls) : calls[i] = T_nth[set_ty][i - 1][1]
            /\ \A v \in T_Values[set_ty] :
                    Cardinality({i \in 1..Len(calls) : calls[i] = v}) = 1
            /\ Members(bitmap) = {v \in T_Values[set_ty] : f[v]}
            /\ size(bitmap) = Cardinality({v \in T_Values[set_ty] : f[v]})
            /\ (\A v \in T_Values[set_ty] : ~f[v]) => bitmap = none
            /\ (set_ty = <<"bool", 0>> /\ f = [x \in BOOLEAN |-> ~x]) =>
                /\ size(bitmap) = 1
                /\ contains(set_ty, bitmap, FALSE, overflow_checks) = Ok(TRUE)

\* C22: BitmapSet::new(f) calls f once on every value of T in ascending
\* index order and returns the set of the values f is true of;
\* new(|_| true) equals all() and new(|_| false) equals none().
C22_NewIsPredicate ==
    /\ C22_NewMembers
    /\ (set_op = "new" /\ \A v \in T_Values[set_ty] : set_arg[1][v]) =>
            all(set_ty, overflow_checks) = Ok(bitmap)

\* C23: over the calls of next and next_back made on a set, in any order and
\* with no other operation in between, every member of the set they started
\* on is returned at most once and all of them by the time size() values were
\* returned; the set holds exactly the members not yet returned; the values of
\* next ascend, those of next_back descend, every value of next is below
\* every value of next_back; and from size() values on both return None and
\* leave the set empty, and not before.
C23_Interleaving ==
    (set_op # "idle" /\ set_ty \in ExploredSetTypes) =>
        LET front == IndicesOf(set_ty, iter_yielded.next)
            back == IndicesOf(set_ty, iter_yielded.next_back)
            given == {front[i] : i \in 1..Len(front)}
                        \cup {back[i] : i \in 1..Len(back)}
            total == Len(front) + Len(back)
            n == next(set_ty, bitmap, overflow_checks)
            nb == next_back(set_ty, bitmap, overflow_checks)
        IN  /\ Cardinality(given) = total
            /\ given \subseteq iter_start
            /\ bitmap = iter_start \ given
            /\ Members(bitmap) =
                    Members(iter_start)
                        \ {unwrap_unchecked_nth(set_ty, i) : i \in given}
            /\ \A i \in 1..(Len(front) - 1) : front[i] < front[i + 1]
            /\ \A i \in 1..(Len(back) - 1) : back[i] > back[i + 1]
            /\ \A i \in 1..Len(front) : \A j \in 1..Len(back) :
                    front[i] < back[j]
            /\ total <= size(iter_start)
            /\ total = size(iter_start) =>
                /\ given = iter_start
                /\ n = [panic |-> FALSE, bits |-> {}, ret |-> None]
                /\ nb = [panic |-> FALSE, bits |-> {}, ret |-> None]
            /\ total < size(iter_start) =>
                /\ ~n.panic /\ n.ret # None
                /\ ~nb.panic /\ nb.ret # None
            /\ (set_op \in {"next", "next_back"} /\ ~panicked) =>
                /\ set_ret = None => total = size(iter_start)
                /\ set_ret # None =>
                    /\ iter_yielded[set_op] # <<>>
                    /\ set_ret[1] =
                          iter_yielded[set_op][Len(iter_yielded[set_op])]

\* C23 witness: on {A, B(false), C(true, true)} next returned A and
\* B(false), next_back returned C(true, true) in between or before, and the
\* fourth call, a next_back, returns None.
C23_Witness ==
    /\ set_ty = <<"MyType", 0>>
    /\ iter_start = {0, 1, 6}
    /\ iter_yielded.next = <<MyType_A, MyType_B(FALSE)>>
    /\ iter_yielded.next_back = <<MyType_C(TRUE, TRUE)>>
    /\ set_op = "next_back"
    /\ set_ret = None
    /\ bitmap = {}

====
